---- MODULE Spec2Model ----
(***************************************************************************)
(* Render-task orchestration and browser-pool lifecycle of                 *)
(* algolia/renderer.                                                       *)
(*                                                                         *)
(* The repository holds two generations of the subsystem:                  *)
(*   - RollingRenderer (a pool of Renderer objects, each owning one        *)
(*     browser process), and                                               *)
(*   - TasksManager, in two revisions: the one of src/lib/TasksManager.ts  *)
(*     (page creation raced against a timer, #removeTask in finally) and   *)
(*     the later one (#exec, promise.finally).                             *)
(* The processing of one page is there twice as well: in                   *)
(* Renderer._processPage (with the page buffer of the Renderer) and in     *)
(* PageTask.process, which navigates through BrowserPage.goto.             *)
(* One Renderer with its task(), its stop() and the page buffer it fills   *)
(* is a system of its own, with the processing of a page reduced to its    *)
(* outcome.  The 'request' handler a page is given (BrowserPage's, and the  *)
(* one of Renderer._defineRequestContextForPage) is the last system.       *)
(* gracefulClose, which shuts a process down through the TasksManager of   *)
(* src/lib/TasksManager.ts, is a system that runs that TasksManager.       *)
(* `system` says which of them a behaviour runs; the variables of the      *)
(* others stay at their initial values.                                    *)
(*                                                                         *)
(* Granularity: JavaScript runs every handler to its next await on an I/O  *)
(* completion, and drains the promise reactions that need no I/O before    *)
(* the next event is handled.  One action is one such run.                 *)
(***************************************************************************)
EXTENDS Integers, FiniteSets, Sequences, TLC

VARIABLES
  system,                \* "rolling" | "managerA" | "managerB" |
                         \* "processPage" | "pageTask" | "renderer" |
                         \* "filter" | "shutdown"
  \* ---- RollingRenderer
  _stopping,             \* RollingRenderer._stopping
  _currentRenderer,      \* RollingRenderer._currentRenderer (a Renderer id)
  _futureRenderer,       \* RollingRenderer._futureRenderer (0 = null)
  _previousStopPromise,  \* id of the Renderer whose stop() it tracks (0 = null)
  renderers,             \* Renderer id -> the fields of that Renderer
  nextId,                \* id the next `new Renderer()` gets
  poolStop,              \* position of the RollingRenderer.stop() call
  held,                  \* Renderer reference a caller keeps from `renderer`
  last,                  \* the most recent call on the pool and its outcome
  \* ---- TasksManager
  tmStopping,            \* TasksManager.#stopping
  tmBrowser,             \* TasksManager.#browser: "null" | "up"
  tmTasks,               \* TasksManager.#tasks: task id -> its entry
  tmLaunch,              \* position of the launch() call
  calls,                 \* task id -> the task() call made for it
  stops,                 \* the stop() calls made, each with its position
  browserStops,          \* number of #browser.stop() calls made
  totalRun,              \* TasksManager.#totalRun
  tmHealthy,             \* what the last read of `healthy` returned
  \* ---- page processing (Renderer._processPage, PageTask.process)
  _pageBuffer,           \* Renderer._pageBuffer: the contexts being pre-created
  contexts,              \* context id -> state of the {page, context} pair
  nextCtx,               \* id the next created context gets
  jobs,                  \* job id -> the processing of that job
  \* ---- one Renderer (task, stop, page buffer)
  rReady,                \* Renderer.ready
  rStopping,             \* Renderer._stopping
  _browser,              \* the browser process: "launching" | "up" | "failed" | "closed"
  _currentTasks,         \* Renderer._currentTasks: the job ids listed
  stopCalls,             \* the Renderer.stop() calls made, each with its position
  closes,                \* number of browser.close() calls made
  \* ---- the 'request' handler of one page
  handler,               \* whose handler it is: "BrowserPage" | "Renderer"
  adblock,               \* the task's `adblock` parameter
  metrics,               \* BrowserPage.#metrics: requests, blockedRequests
  reqs,                  \* request id -> the handling of that request
  \* ---- gracefulClose (the process with its API server and TasksManager)
  gracefullyClosing,     \* the module's flag
  closeCalls,            \* the gracefulClose() calls made, each with its position
  api,                   \* the API server: "running" | "stopping" | "stopped"
  apiStops,              \* number of api.stop() calls made
  drain,                 \* reporting.drain(): "idle" | "pending" | "resolved" | "rejected"
  drains,                \* number of reporting.drain() calls made
  exits                  \* number of process.exit() calls made

rollingVars == <<_stopping, _currentRenderer, _futureRenderer,
                 _previousStopPromise, renderers, nextId, poolStop, held, last>>

managerVars == <<tmStopping, tmBrowser, tmTasks, tmLaunch, calls, stops,
                 browserStops, totalRun, tmHealthy>>

pageVars == <<_pageBuffer, contexts, nextCtx, jobs>>

rendererVars == <<rReady, rStopping, _browser, _currentTasks, stopCalls, closes>>

filterVars == <<handler, adblock, metrics, reqs>>

shutdownVars == <<gracefullyClosing, closeCalls, api, apiStops, drain, drains,
                  exits>>

vars == <<system, rollingVars, managerVars, pageVars, rendererVars, filterVars,
          shutdownVars>>

\* A step of the RollingRenderer system.
Rolling ==
  system = "rolling" /\ UNCHANGED <<system, managerVars, pageVars, rendererVars, filterVars,
               shutdownVars>>

\* ------------------------------------------------------------------ bounds
MAX_RENDERER_TASKS == 2
MaxRenderers == 4
MaxTotalTasks == 3
MaxPending == 2
MaxManagerTasks == 2
MaxStops == 2
MaxJobs == 2
MaxHops == 2
MaxRequests == 2
MaxResponses == 2
MaxMinWait == 1
MaxElapsed == 2
MaxSignals == 3
PAGE_BUFFER_SIZE == 2

RendererIds == 1..MaxRenderers
TaskIds == 1..MaxManagerTasks
StopIds == 1..MaxStops
JobIds == 1..MaxJobs
CtxIds == 1..(PAGE_BUFFER_SIZE + MaxJobs)
Urls == {"requested", "other"}
ReqIds == 1..MaxRequests
SignalIds == 1..MaxSignals
\* 200, another 2xx status, a status that is not 2xx
Statuses == {200, 204, 404}
\* waitTime.min in units of time; 0 stands for a minimum that is not set
MinWaits == 0..MaxMinWait

\* ---------------------------------------------------------------- Renderer

\* Renderer.constructor: not ready, no task served, browser launching.
NewRenderer ==
  [exists |-> TRUE, ready |-> FALSE, nbTotalTasks |-> 0, _stopping |-> FALSE,
   browser |-> "launching", pending |-> 0, stale |-> 0, stop |-> "idle"]

NoRenderer ==
  [exists |-> FALSE, ready |-> FALSE, nbTotalTasks |-> 0, _stopping |-> FALSE,
   browser |-> "none", pending |-> 0, stale |-> 0, stop |-> "idle"]

\* Renderer.stop() up to its first await: sets _stopping; with ready already
\* true the `while` is skipped and the tasks of _currentTasks are awaited.
RendererStopCall(rs, r) ==
  [rs EXCEPT ![r]._stopping = TRUE,
             ![r].stop = IF rs[r].stop # "idle" THEN rs[r].stop
                         ELSE IF rs[r].ready THEN "waitTasks" ELSE "waitReady"]

\* Renderer.task() up to its first await, on a Renderer that is not stopping.
RendererTaskCall(rs, r) ==
  [rs EXCEPT ![r].nbTotalTasks = @ + 1, ![r].pending = @ + 1]

\* Whether Renderer.task() can be started within the bounds of the model.
TaskFits(rs, r) ==
  rs[r].nbTotalTasks < MaxTotalTasks /\ rs[r].pending < MaxPending

\* --------------------------------------------------------- RollingRenderer

\* The limit compared with equality: a count that skips it never rolls.
NotAtLimit(nbTotalTasks) == nbTotalTasks # MAX_RENDERER_TASKS

\* "Before the limit, use the current renderer"
BelowLimit(nbTotalTasks) == nbTotalTasks < MAX_RENDERER_TASKS

\* A replacement created on every call past the limit.
AlwaysNeedsFuture(future) == TRUE

\* "On the limit, create a new one": only when the slot is empty.
NeedsFuture(future) == future = 0

\* The pending stop of the previous Renderer not looked at.
previousIgnored(previous) == TRUE

\* const previousStopped = this._previousStopPromise === null
previousStopped(previous) == previous = 0

\* The replacement used without looking at its readiness.
futureAssumedReady(rs, future) == TRUE

\* const { ready: futureReady } = this._futureRenderer
futureReady(rs, future) == rs[future].ready

\* What one evaluation of a pool operation leaves behind.
Pool(cur, fut, prev, rs, next) ==
  [cur |-> cur, fut |-> fut, prev |-> prev, rs |-> rs, next |-> next]

\* The current Renderer stopped and the replacement dropped, not promoted.
PromoteWithoutSwitch(cur, fut, rs, next) ==
  Pool(cur, 0, cur, RendererStopCall(rs, cur), next)

\* The replacement promoted and its slot not cleared.
PromoteKeepsSlot(cur, fut, rs, next) ==
  Pool(fut, fut, cur, RendererStopCall(rs, cur), next)

\* The current Renderer stopped without its promise being kept.
PromoteForgetsStop(cur, fut, rs, next) ==
  Pool(fut, 0, 0, RendererStopCall(rs, cur), next)

\* _stopCurrentRenderer() followed by the two assignments of the getter:
\* stop() is called on the current Renderer and its promise kept, the future
\* Renderer becomes the current one, the slot is cleared.
Promote(cur, fut, rs, next) ==
  Pool(fut, 0, cur, RendererStopCall(rs, cur), next)

\* get renderer(), for a pool that is not stopping.
RendererGetter ==
  LET cur == _currentRenderer
      keep == Pool(cur, _futureRenderer, _previousStopPromise, renderers, nextId)
  IN IF BelowLimit(renderers[cur].nbTotalTasks) THEN keep
     ELSE LET create == NeedsFuture(_futureRenderer)
              fut == IF create THEN nextId ELSE _futureRenderer
              rs == IF create THEN [renderers EXCEPT ![nextId] = NewRenderer]
                    ELSE renderers
              next == IF create THEN nextId + 1 ELSE nextId
              wait == Pool(cur, fut, _previousStopPromise, rs, next)
          IN IF ~previousStopped(_previousStopPromise) THEN wait
             ELSE IF ~futureReady(rs, fut) THEN wait
             ELSE Promote(cur, fut, rs, next)

\* The getter can run within the bounds: a Renderer id is left when it creates.
GetterFits ==
  \/ BelowLimit(renderers[_currentRenderer].nbTotalTasks)
  \/ ~NeedsFuture(_futureRenderer)
  \/ nextId <= MaxRenderers

Called(op, ret, err) == [op |-> op, ret |-> ret, err |-> err]

SetPool(g) ==
  /\ _currentRenderer' = g.cur
  /\ _futureRenderer' = g.fut
  /\ _previousStopPromise' = g.prev
  /\ renderers' = g.rs
  /\ nextId' = g.next

\* A call that throws 'Called ... on a stopping RollingRenderer'.
PoolRejects(op) ==
  /\ _stopping
  /\ last' = Called(op, 0, "pool_stopping")
  /\ UNCHANGED <<_stopping, _currentRenderer, _futureRenderer,
                 _previousStopPromise, renderers, nextId, poolStop, held>>

\* RollingRenderer.task(job): the getter, then Renderer.task on what it returns.
Task ==
  /\ Rolling
  /\ \/ PoolRejects("task")
     \/ /\ ~_stopping
        /\ GetterFits
        /\ LET g == RendererGetter
           IN IF g.rs[g.cur]._stopping
              THEN /\ SetPool(g)
                   /\ last' = Called("task", g.cur, "renderer_stopping")
              ELSE /\ TaskFits(g.rs, g.cur)
                   /\ SetPool([g EXCEPT !.rs = RendererTaskCall(g.rs, g.cur)])
                   /\ last' = Called("task", g.cur, "")
        /\ UNCHANGED <<_stopping, poolStop, held>>

\* get ready(): this.renderer.ready
Ready ==
  /\ Rolling
  /\ \/ PoolRejects("ready")
     \/ /\ ~_stopping
        /\ GetterFits
        /\ SetPool(RendererGetter)
        /\ last' = Called("ready", RendererGetter.cur, "")
        /\ UNCHANGED <<_stopping, poolStop, held>>

\* healthy(): this.renderer.healthy()
Healthy ==
  /\ Rolling
  /\ \/ PoolRejects("healthy")
     \/ /\ ~_stopping
        /\ GetterFits
        /\ SetPool(RendererGetter)
        /\ last' = Called("healthy", RendererGetter.cur, "")
        /\ UNCHANGED <<_stopping, poolStop, held>>

\* A caller reads `renderer` and keeps the Renderer it got.
GetRenderer ==
  /\ Rolling
  /\ \/ PoolRejects("renderer")
     \/ /\ ~_stopping
        /\ GetterFits
        /\ SetPool(RendererGetter)
        /\ held' = RendererGetter.cur
        /\ last' = Called("renderer", RendererGetter.cur, "")
        /\ UNCHANGED <<_stopping, poolStop>>

\* Renderer.task(job) called on the kept Renderer, past the pool.
HeldTask ==
  /\ Rolling
  /\ held # 0
  /\ IF renderers[held]._stopping
     THEN /\ last' = Called("heldTask", held, "renderer_stopping")
          /\ UNCHANGED renderers
     ELSE /\ TaskFits(renderers, held)
          /\ renderers' = RendererTaskCall(renderers, held)
          /\ last' = Called("heldTask", held, "")
  /\ UNCHANGED <<_stopping, _currentRenderer, _futureRenderer,
                 _previousStopPromise, nextId, poolStop, held>>

\* --------------------------------------------- events inside one Renderer

Event == Called("event", 0, "")

PoolUnchanged ==
  UNCHANGED <<_stopping, _currentRenderer, _futureRenderer, nextId, poolStop,
              held>>

\* Promise.all(this._pageBuffer).then(() => { this.ready = true })
RendererReady(r) ==
  /\ Rolling
  /\ renderers[r].exists /\ renderers[r].browser = "launching"
  /\ renderers' = [renderers EXCEPT ![r].browser = "up", ![r].ready = TRUE]
  /\ last' = Event
  /\ PoolUnchanged /\ UNCHANGED _previousStopPromise

\* puppeteer.launch or the test page rejects: the Renderer is never ready.
RendererLaunchFails(r) ==
  /\ Rolling
  /\ renderers[r].exists /\ renderers[r].browser = "launching"
  /\ renderers' = [renderers EXCEPT ![r].browser = "failed"]
  /\ last' = Event
  /\ PoolUnchanged /\ UNCHANGED _previousStopPromise

\* `await promise` of Renderer.task resolves: _removeTask takes the entry out.
TaskDone(r) ==
  /\ Rolling
  /\ renderers[r].pending > 0 /\ renderers[r].browser = "up"
  /\ renderers' = [renderers EXCEPT ![r].pending = @ - 1]
  /\ last' = Event
  /\ PoolUnchanged /\ UNCHANGED _previousStopPromise

\* `await promise` of Renderer.task rejects: task() throws before _removeTask,
\* the entry stays in _currentTasks with its rejected promise.
TaskFail(r) ==
  /\ Rolling
  /\ renderers[r].pending > 0
  /\ renderers' = [renderers EXCEPT ![r].pending = @ - 1, ![r].stale = @ + 1]
  /\ last' = Event
  /\ PoolUnchanged /\ UNCHANGED _previousStopPromise

\* Renderer.stop(): the `while (!this.ready)` poll ends.
StopSeesReady(r) ==
  /\ Rolling
  /\ renderers[r].stop = "waitReady" /\ renderers[r].ready
  /\ renderers' = [renderers EXCEPT ![r].stop = "waitTasks"]
  /\ last' = Event
  /\ PoolUnchanged /\ UNCHANGED _previousStopPromise

\* Renderer.stop(): Promise.all over _currentTasks resolves.
StopTasksSettled(r) ==
  /\ Rolling
  /\ renderers[r].stop = "waitTasks"
  /\ renderers[r].pending = 0 /\ renderers[r].stale = 0
  /\ renderers' = [renderers EXCEPT ![r].stop = "waitPages"]
  /\ last' = Event
  /\ PoolUnchanged /\ UNCHANGED _previousStopPromise

\* Renderer.stop(): Promise.all over _currentTasks rejects, stop() rejects.
StopTasksReject(r) ==
  /\ Rolling
  /\ renderers[r].stop = "waitTasks"
  /\ renderers[r].stale > 0
  /\ renderers' = [renderers EXCEPT ![r].stop = "failed"]
  /\ last' = Event
  /\ PoolUnchanged /\ UNCHANGED _previousStopPromise

\* Renderer.stop(): Promise.all(this._pageBuffer) resolves, browser.close() is
\* called.
StopPagesSettled(r) ==
  /\ Rolling
  /\ renderers[r].stop = "waitPages"
  /\ renderers' = [renderers EXCEPT ![r].stop = "closing"]
  /\ last' = Event
  /\ PoolUnchanged /\ UNCHANGED _previousStopPromise

\* The .then of _stopCurrentRenderer: the handle is cleared when the stop it
\* tracks resolves.
ClearPrevious(previous, r) == IF previous = r THEN 0 ELSE previous

\* Renderer.stop(): browser.close() resolves, stop() resolves.
StopClosed(r) ==
  /\ Rolling
  /\ renderers[r].stop = "closing"
  /\ renderers' = [renderers EXCEPT ![r].stop = "stopped",
                                    ![r].browser = "closed"]
  /\ _previousStopPromise' = ClearPrevious(_previousStopPromise, r)
  /\ last' = Event
  /\ PoolUnchanged

\* ---------------------------------------------------- RollingRenderer.stop

\* The future Renderer left running by stop().
FutureNeverStopped(future) == FALSE

\* if (this._futureRenderer) await this._futureRenderer.stop()
StopsFuture(future) == future # 0

\* stop() up to its first await.
Stop ==
  /\ Rolling
  /\ poolStop = "idle"
  /\ _stopping' = TRUE
  /\ IF _previousStopPromise # 0
     THEN /\ poolStop' = "awaitPrevious"
          /\ UNCHANGED renderers
     ELSE /\ poolStop' = "awaitCurrent"
          /\ renderers' = RendererStopCall(renderers, _currentRenderer)
  /\ last' = Called("stop", 0, "")
  /\ UNCHANGED <<_currentRenderer, _futureRenderer, _previousStopPromise,
                 nextId, held>>

\* `await this._previousStopPromise` ends.
StopAfterPrevious ==
  /\ Rolling
  /\ poolStop = "awaitPrevious"
  /\ \/ /\ _previousStopPromise = 0
        /\ poolStop' = "awaitCurrent"
        /\ renderers' = RendererStopCall(renderers, _currentRenderer)
     \/ /\ _previousStopPromise # 0
        /\ renderers[_previousStopPromise].stop = "failed"
        /\ poolStop' = "failed"
        /\ UNCHANGED renderers
  /\ last' = Event
  /\ UNCHANGED <<_stopping, _currentRenderer, _futureRenderer,
                 _previousStopPromise, nextId, held>>

\* `await this._currentRenderer.stop()` ends.
StopAfterCurrent ==
  /\ Rolling
  /\ poolStop = "awaitCurrent"
  /\ \/ /\ renderers[_currentRenderer].stop = "stopped"
        /\ IF StopsFuture(_futureRenderer)
           THEN /\ poolStop' = "awaitFuture"
                /\ renderers' = RendererStopCall(renderers, _futureRenderer)
           ELSE /\ poolStop' = "done"
                /\ UNCHANGED renderers
     \/ /\ renderers[_currentRenderer].stop = "failed"
        /\ poolStop' = "failed"
        /\ UNCHANGED renderers
  /\ last' = Event
  /\ UNCHANGED <<_stopping, _currentRenderer, _futureRenderer,
                 _previousStopPromise, nextId, held>>

\* `await this._futureRenderer.stop()` ends.
StopAfterFuture ==
  /\ Rolling
  /\ poolStop = "awaitFuture"
  /\ \/ /\ renderers[_futureRenderer].stop = "stopped"
        /\ poolStop' = "done"
     \/ /\ renderers[_futureRenderer].stop = "failed"
        /\ poolStop' = "failed"
  /\ last' = Event
  /\ UNCHANGED <<_stopping, _currentRenderer, _futureRenderer,
                 _previousStopPromise, renderers, nextId, held>>

\* ------------------------------------------------------------ TasksManager

\* An entry of #tasks: `task` says obj.task is set, `promise` that the entry
\* holds the task's promise.
Entry(task, promise) == [in |-> TRUE, task |-> task, promise |-> promise]
NoEntry == [in |-> FALSE, task |-> FALSE, promise |-> FALSE]

\* A task() call: where it stands, the page-creation timer it armed, the page
\* it created, the promise of its processing, the error it carries to its
\* `finally`, the error it rejected with, and whether its createdAt is more
\* than UNHEALTHY_TASK_TTL ago.
NoCall ==
  [pc |-> "unused", timer |-> "none", page |-> "none", promise |-> "none",
   fail |-> "", err |-> "", old |-> FALSE]

NoStop == [pc |-> "idle", awaited |-> {}]

Unsettled(c) == c.pc \notin {"unused", "resolved", "rejected"}

\* The check of #stopping left out.
RefusedWithoutBrowserOnly(stopping, browser) ==
  IF browser = "null" THEN "no_browser" ELSE ""

\* if (this.#stopping) throw ...; if (!this.#browser) throw ...
TaskRefused(stopping, browser) ==
  IF stopping THEN "stopping"
  ELSE IF browser = "null" THEN "no_browser"
  ELSE ""

Rejected(c, err) == [c EXCEPT !.pc = "rejected", !.err = err]

\* The task() call made next: ids are used in order.
NextTask(t) == calls[t].pc = "unused" /\ \A u \in TaskIds : u < t => calls[u].pc # "unused"

\* The stop() call made next.
NextStop(s) == stops[s].pc = "idle" /\ \A u \in StopIds : u < s => stops[u].pc # "idle"

\* The promises stop() collects and awaits.
\*   src/lib/TasksManager.ts: the taskPromise of every entry that has one;
\*   later revision: #removeTask(id) of every entry, which awaits its promise.
StopAwaits(tasks) == {t \in TaskIds : tasks[t].in /\ tasks[t].promise}

\* stop() calls whose Promise.all has resolved, given the calls as they are.
StopReady(st, cs) ==
  {s \in StopIds : st[s].pc = "awaitTasks"
                     /\ \A t \in st[s].awaited : cs[t].promise = "settled"}

\* The rest of stop() after `await Promise.all(promises)`, for every stop()
\* call whose wait has ended: #tasks.clear(), then #browser.stop() if there is
\* a browser.  st are the stop() calls, cs the task() calls, tasks the map as
\* the step has left them so far.
StopContinue(st, cs, tasks) ==
  LET ready == StopReady(st, cs)
  IN [stops |-> [s \in StopIds |->
                   IF s \in ready
                   THEN [pc |-> IF tmBrowser = "up" THEN "awaitBrowser"
                                ELSE "done",
                         awaited |-> {}]
                   ELSE st[s]],
      tasks |-> IF ready = {} THEN tasks ELSE [t \in TaskIds |-> NoEntry],
      browserStops |-> IF tmBrowser = "up"
                       THEN browserStops + Cardinality(ready)
                       ELSE browserStops]

\* stop() from its call to its first wait on I/O: #stopping is set, the
\* promises are collected; with nothing pending the rest of stop() follows
\* at once.
StopCalled(s, cs, tasks) ==
  StopContinue([stops EXCEPT ![s] = [pc |-> "awaitTasks",
                                     awaited |-> StopAwaits(tasks)]],
               cs, tasks)

SetStops(k) ==
  /\ stops' = k.stops
  /\ tmTasks' = k.tasks
  /\ browserStops' = k.browserStops

\* A step of the TasksManager of either revision, in a process that has not
\* exited.
Manager ==
  /\ system \in {"managerA", "managerB", "shutdown"}
  /\ exits = 0
  /\ UNCHANGED <<system, rollingVars, pageVars, rendererVars, filterVars,
               shutdownVars>>

\* A step that is not a read of `healthy`.
ManagerStep == Manager /\ UNCHANGED tmHealthy

\* launch(): new Browser(), browser.create() started.
LaunchStart ==
  /\ ManagerStep
  /\ tmLaunch = "idle"
  /\ tmLaunch' = "creating"
  /\ UNCHANGED <<tmStopping, tmBrowser, tmTasks, calls, stops, browserStops,
                 totalRun>>

\* launch(): browser.create() resolved.
LaunchDone ==
  /\ ManagerStep
  /\ tmLaunch = "creating"
  /\ tmLaunch' = "done"
  /\ tmBrowser' = "up"
  /\ tmStopping' = FALSE
  /\ UNCHANGED <<tmTasks, calls, stops, browserStops, totalRun>>

\* stop() called from outside (gracefulClose).
StopCall(s) ==
  /\ ManagerStep
  /\ NextStop(s)
  /\ tmStopping' = TRUE
  /\ SetStops(StopCalled(s, calls, tmTasks))
  /\ UNCHANGED <<tmBrowser, tmLaunch, calls, totalRun>>

\* stop(): `await this.#browser.stop()` ends, #browser = null.
BrowserStopped(s) ==
  /\ ManagerStep
  /\ stops[s].pc = "awaitBrowser"
  /\ stops' = [stops EXCEPT ![s].pc = "done"]
  /\ tmBrowser' = "null"
  /\ UNCHANGED <<tmStopping, tmTasks, tmLaunch, calls, browserStops, totalRun>>

\* UNHEALTHY_TASK_TTL passes since the createdAt of an entry of #tasks.
TtlElapses(t) ==
  /\ ManagerStep
  /\ tmTasks[t].in
  /\ ~calls[t].old
  /\ calls' = [calls EXCEPT ![t].old = TRUE]
  /\ UNCHANGED <<tmStopping, tmBrowser, tmTasks, tmLaunch, stops, browserStops,
                 totalRun>>

\* A stopping manager reported healthy when its browser is ready.
healthyIgnoresStopping(isReady) ==
  IF \E t \in TaskIds : tmTasks[t].in /\ calls[t].old THEN FALSE
  ELSE IF tmBrowser # "null" THEN isReady
  ELSE FALSE

\* get healthy(), with isReady what this.#browser.isReady returns.
healthy(isReady) ==
  IF tmStopping THEN FALSE
  ELSE IF \E t \in TaskIds : tmTasks[t].in /\ calls[t].old THEN FALSE
  ELSE IF tmBrowser # "null" THEN isReady
  ELSE FALSE

\* `healthy` is read (the /healthy route).
HealthyGet(isReady) ==
  /\ Manager
  /\ tmHealthy' = IF healthy(isReady) THEN "true" ELSE "false"
  /\ UNCHANGED <<tmStopping, tmBrowser, tmTasks, tmLaunch, calls, stops,
                 browserStops, totalRun>>

\* -------------------------------------- TasksManager, src/lib/TasksManager.ts

ManagerA ==
  /\ system \in {"managerA", "shutdown"}
  /\ exits = 0
  /\ UNCHANGED <<system, rollingVars, pageVars, rendererVars, filterVars,
               shutdownVars, tmHealthy>>

Without(tasks, t) == [tasks EXCEPT ![t] = NoEntry]

\* `finally { await this.#removeTask(id) }` up to its first await, entered
\* with `fail` the error the try block threw ("" when it returned).
\*   entry missing: #removeTask throws 'Could not find task', which replaces
\*     the outcome of the call;
\*   obj.task set: task.close() is awaited before the delete;
\*   else the entry is deleted and the call ends as the try block did.
Finally(tasks, t, c, fail) ==
  IF ~tasks[t].in
  THEN [call |-> Rejected(c, "could_not_find_task"), tasks |-> tasks]
  ELSE IF tasks[t].task
  THEN [call |-> [c EXCEPT !.pc = "removing", !.fail = fail], tasks |-> tasks]
  ELSE [call |-> IF fail = "" THEN [c EXCEPT !.pc = "resolved"]
                 ELSE Rejected(c, fail),
        tasks |-> Without(tasks, t)]

SetFinally(t, f) ==
  /\ calls' = [calls EXCEPT ![t] = f.call]
  /\ tmTasks' = f.tasks

\* task(job) up to `await Promise.race(...)`: refused, or registered with
\* page creation started and the timer armed.
SubmitA(t) ==
  /\ ManagerA
  /\ NextTask(t)
  /\ LET why == TaskRefused(tmStopping, tmBrowser)
     IN IF why # ""
        THEN /\ calls' = [calls EXCEPT ![t] = Rejected(@, why)]
             /\ UNCHANGED tmTasks
        ELSE /\ calls' = [calls EXCEPT ![t].pc = "creating",
                                       ![t].timer = "armed",
                                       ![t].page = "creating"]
             /\ tmTasks' = [tmTasks EXCEPT ![t] = Entry(FALSE, FALSE)]
  /\ UNCHANGED <<tmStopping, tmBrowser, tmLaunch, stops, browserStops, totalRun>>

\* page.create() resolves first: obj = this.#tasks.get(id)!; obj.task = task;
\* page.linkToTask(task) is awaited.  With the entry gone `obj.task = task`
\* throws and the `finally` runs.
PageCreatedA(t) ==
  /\ ManagerA
  /\ calls[t].pc = "creating"
  /\ LET c == [calls[t] EXCEPT !.page = "open"]
     IN IF tmTasks[t].in
        THEN /\ calls' = [calls EXCEPT ![t] = [c EXCEPT !.pc = "linking"]]
             /\ tmTasks' = [tmTasks EXCEPT ![t].task = TRUE]
        ELSE SetFinally(t, Finally(tmTasks, t, c, "no_entry"))
  /\ UNCHANGED <<tmStopping, tmBrowser, tmLaunch, stops, browserStops, totalRun>>

\* page.create() rejects first.
PageCreateFailsA(t) ==
  /\ ManagerA
  /\ calls[t].pc = "creating"
  /\ SetFinally(t, Finally(tmTasks, t, [calls[t] EXCEPT !.page = "none"],
                            "page_create_failed"))
  /\ UNCHANGED <<tmStopping, tmBrowser, tmLaunch, stops, browserStops, totalRun>>

\* wait(MAX_WAIT_FOR_NEW_PAGE) elapses: this.stop() is called, then the
\* timer's function throws 'Can not create a BrowserPage'.  The timer is not
\* cancelled when page creation wins the race; the throw reaches task() only
\* while it still awaits the race.  stop() runs to its first wait before the
\* rejection reaches the `finally` of task().
TimerFiresA(t, s) ==
  /\ ManagerA
  /\ calls[t].timer = "armed"
  /\ NextStop(s)
  /\ tmStopping' = TRUE
  /\ LET k == StopCalled(s, calls, tmTasks)
         c == [calls[t] EXCEPT !.timer = "fired"]
     IN /\ stops' = k.stops
        /\ browserStops' = k.browserStops
        /\ IF calls[t].pc = "creating"
           THEN SetFinally(t, Finally(k.tasks, t, c, "cannot_create_page"))
           ELSE /\ calls' = [calls EXCEPT ![t] = c]
                /\ tmTasks' = k.tasks
  /\ UNCHANGED <<tmBrowser, tmLaunch, totalRun>>

\* page.linkToTask(task) resolves: obj.taskPromise = task.process().catch(..)
LinkDoneA(t) ==
  /\ ManagerA
  /\ calls[t].pc = "linking"
  /\ calls' = [calls EXCEPT ![t].pc = "processing", ![t].promise = "pending"]
  /\ tmTasks' = IF tmTasks[t].in THEN [tmTasks EXCEPT ![t].promise = TRUE]
                ELSE tmTasks
  /\ UNCHANGED <<tmStopping, tmBrowser, tmLaunch, stops, browserStops, totalRun>>

\* page.linkToTask(task) rejects.
LinkFailsA(t) ==
  /\ ManagerA
  /\ calls[t].pc = "linking"
  /\ SetFinally(t, Finally(tmTasks, t, calls[t], "link_failed"))
  /\ UNCHANGED <<tmStopping, tmBrowser, tmLaunch, stops, browserStops, totalRun>>

\* obj.taskPromise settles (an error of process() is caught and reported):
\* task() goes on to `await task.close()`, and every stop() that was waiting
\* for this promise last goes on.
ProcessSettlesA(t) ==
  /\ ManagerA
  /\ calls[t].pc = "processing"
  /\ LET cs == [calls EXCEPT ![t].pc = "closing", ![t].promise = "settled"]
     IN /\ calls' = cs
        /\ SetStops(StopContinue(stops, cs, tmTasks))
  /\ UNCHANGED <<tmStopping, tmBrowser, tmLaunch, totalRun>>

\* `await task.close()` resolves: reporting, return, then the `finally`.
CloseDoneA(t) ==
  /\ ManagerA
  /\ calls[t].pc = "closing"
  /\ SetFinally(t, Finally(tmTasks, t, [calls[t] EXCEPT !.page = "closed"], ""))
  /\ UNCHANGED <<tmStopping, tmBrowser, tmLaunch, stops, browserStops, totalRun>>

\* `await task.close()` rejects: catch, rethrow, then the `finally`.
CloseFailsA(t) ==
  /\ ManagerA
  /\ calls[t].pc = "closing"
  /\ SetFinally(t, Finally(tmTasks, t, calls[t], "close_failed"))
  /\ UNCHANGED <<tmStopping, tmBrowser, tmLaunch, stops, browserStops, totalRun>>

\* #removeTask: `await task.task?.close()` resolves, this.#tasks.delete(id).
RemoveDoneA(t) ==
  /\ ManagerA
  /\ calls[t].pc = "removing"
  /\ calls' = [calls EXCEPT ![t] =
                 IF @.fail = "" THEN [@ EXCEPT !.pc = "resolved", !.page = "closed"]
                 ELSE Rejected([@ EXCEPT !.page = "closed"], @.fail)]
  /\ tmTasks' = Without(tmTasks, t)
  /\ UNCHANGED <<tmStopping, tmBrowser, tmLaunch, stops, browserStops, totalRun>>

\* #removeTask: `await task.task?.close()` rejects: the delete is skipped and
\* task() rejects with the error of close().
RemoveFailsA(t) ==
  /\ ManagerA
  /\ calls[t].pc = "removing"
  /\ calls' = [calls EXCEPT ![t] = Rejected(@, "close_failed")]
  /\ UNCHANGED <<tmStopping, tmBrowser, tmTasks, tmLaunch, stops, browserStops,
                 totalRun>>

\* ------------------------------- TasksManager, later revision (#exec)

ManagerB ==
  /\ system = "managerB"
  /\ UNCHANGED <<system, rollingVars, pageVars, rendererVars, filterVars,
               shutdownVars, tmHealthy>>

\* #exec returns or throws: its promise settles, the callback of
\* promise.finally deletes the entry, task() settles, and every stop() whose
\* #removeTask calls have all ended goes on.
SettleB(t, c) ==
  LET cs == [calls EXCEPT ![t] = [c EXCEPT !.promise = "settled"]]
  IN /\ calls' = cs
     /\ SetStops(StopContinue(stops, cs, Without(tmTasks, t)))

\* task(task): #exec runs to its first await (refused, or createContext
\* started), #totalRun is counted, the entry is set with the promise of
\* #exec.  The promise of a refused task is already rejected: the callback of
\* promise.finally takes the entry out again before anything else runs.
SubmitB(t) ==
  /\ ManagerB
  /\ NextTask(t)
  /\ totalRun' = totalRun + 1
  /\ LET why == TaskRefused(tmStopping, tmBrowser)
     IN IF why # ""
        THEN /\ calls' = [calls EXCEPT ![t] =
                            Rejected([@ EXCEPT !.promise = "settled"], why)]
             /\ UNCHANGED tmTasks
        ELSE /\ calls' = [calls EXCEPT ![t].pc = "context",
                                       ![t].promise = "pending",
                                       ![t].page = "creating"]
             /\ tmTasks' = [tmTasks EXCEPT ![t] = Entry(TRUE, TRUE)]
  /\ UNCHANGED <<tmStopping, tmBrowser, tmLaunch, stops, browserStops>>

\* task.createContext(this.#browser) resolves: task.process() is awaited.
ContextDoneB(t) ==
  /\ ManagerB
  /\ calls[t].pc = "context"
  /\ calls' = [calls EXCEPT ![t].pc = "process", ![t].page = "open"]
  /\ UNCHANGED <<tmStopping, tmBrowser, tmTasks, tmLaunch, stops, browserStops,
                 totalRun>>

\* task.createContext rejects: reported, task.close() is awaited.
ContextFailsB(t) ==
  /\ ManagerB
  /\ calls[t].pc = "context"
  /\ calls' = [calls EXCEPT ![t].pc = "closing", ![t].page = "none",
                            ![t].fail = "context_failed"]
  /\ UNCHANGED <<tmStopping, tmBrowser, tmTasks, tmLaunch, stops, browserStops,
                 totalRun>>

\* task.process() resolves: task.saveMetrics() is awaited.
ProcessDoneB(t) ==
  /\ ManagerB
  /\ calls[t].pc = "process"
  /\ calls' = [calls EXCEPT ![t].pc = "metrics"]
  /\ UNCHANGED <<tmStopping, tmBrowser, tmTasks, tmLaunch, stops, browserStops,
                 totalRun>>

\* task.process() rejects: reported, task.close() is awaited.
ProcessFailsB(t) ==
  /\ ManagerB
  /\ calls[t].pc = "process"
  /\ calls' = [calls EXCEPT ![t].pc = "closing", ![t].fail = "process_failed"]
  /\ UNCHANGED <<tmStopping, tmBrowser, tmTasks, tmLaunch, stops, browserStops,
                 totalRun>>

\* task.saveMetrics() settles (an error is reported): task.close() is awaited.
MetricsSettlesB(t) ==
  /\ ManagerB
  /\ calls[t].pc = "metrics"
  /\ calls' = [calls EXCEPT ![t].pc = "closing"]
  /\ UNCHANGED <<tmStopping, tmBrowser, tmTasks, tmLaunch, stops, browserStops,
                 totalRun>>

\* task.close() resolves: this.#tasks.delete(id), reporting, return.
CloseDoneB(t) ==
  /\ ManagerB
  /\ calls[t].pc = "closing"
  /\ SettleB(t, [calls[t] EXCEPT !.pc = "resolved",
                                 !.page = IF @ = "open" THEN "closed" ELSE @])
  /\ UNCHANGED <<tmStopping, tmBrowser, tmLaunch, totalRun>>

\* task.close() rejects: 'Error during close' is reported, the delete of
\* #exec is skipped, reporting, return.
CloseFailsB(t) ==
  /\ ManagerB
  /\ calls[t].pc = "closing"
  /\ SettleB(t, [calls[t] EXCEPT !.pc = "resolved"])
  /\ UNCHANGED <<tmStopping, tmBrowser, tmLaunch, totalRun>>

\* ---------------------------------------------------------- page processing

\* A step of Renderer._processPage or of PageTask.process.
Page ==
  /\ system \in {"processPage", "pageTask"}
  /\ UNCHANGED <<system, rollingVars, managerVars, rendererVars, filterVars,
               shutdownVars>>

ProcessPage ==
  /\ system = "processPage"
  /\ UNCHANGED <<system, rollingVars, managerVars, rendererVars, filterVars,
               shutdownVars>>

PageTask ==
  /\ system = "pageTask"
  /\ UNCHANGED <<system, rollingVars, managerVars, rendererVars, filterVars,
               shutdownVars>>

\* A result object: statusCode says the key is there; body, error and
\* resolvedUrl are "" when absent; timeout is "absent", "true" or "false".
NoResult ==
  [statusCode |-> FALSE, body |-> "", error |-> "", timeout |-> "absent",
   resolvedUrl |-> ""]

\* The processing of one job: where it stands, its context, how many
\* responses the page has emitted during the navigation, the response the
\* `response` local holds (the n-th emitted, 0 for null), whether the
\* navigation ran into its timeout and
\* whether the `timeout` local is set, the URL the page is on and how often
\* it changed after the navigation, the two reads of window.location.href
\* and the URL whose document was serialized, and the result.  For
\* PageTask.process, until it has decided on the minimum wait: the status of
\* the response, waitTime.min and the time since `total`; and while it
\* sleeps, the delay it asked for.
NoJob ==
  [pc |-> "unused", ctx |-> 0, emitted |-> 0, response |-> 0, slow |-> FALSE,
   timeout |-> FALSE, loc |-> "", hops |-> 0, pre |-> "", body |-> "",
   post |-> "", result |-> NoResult,
   status |-> 0, minWait |-> 0, elapsed |-> 0, sleep |-> 0]

Finished(j) == j.pc \in {"done", "thrown"}

\* The job started next: ids are used in order.
NextJob(t) ==
  jobs[t].pc = "unused" /\ \A u \in JobIds : u < t => jobs[u].pc # "unused"

\* _createNewPage() resolves: a context of the buffer, or one already handed
\* to a job, has its page.
PageCreated(c) ==
  /\ ProcessPage
  /\ contexts[c] = "creating"
  /\ contexts' = [contexts EXCEPT ![c] = "open"]
  /\ UNCHANGED <<_pageBuffer, nextCtx, jobs>>

\* _createNewPage() rejects (the browser could not be launched, or
\* createIncognitoBrowserContext / newPage failed).
PageCreateFails(c) ==
  /\ ProcessPage
  /\ contexts[c] = "creating"
  /\ contexts' = [contexts EXCEPT ![c] = "failed"]
  /\ UNCHANGED <<_pageBuffer, nextCtx, jobs>>

\* The head of the buffer handed out and left in the buffer.
newPageKeepsHead(buffer, created) == [got |-> Head(buffer), buffer |-> Append(buffer, created)]

\* _newPage(): this._pageBuffer.push(this._createNewPage());
\* return await this._pageBuffer.shift()
_newPage(buffer, created) ==
  [got |-> Head(Append(buffer, created)),
   buffer |-> Tail(Append(buffer, created))]

\* Renderer.task(job) -> _processPage(job) up to `await this._newPage()`.
StartProcessPage(t) ==
  /\ ProcessPage
  /\ NextJob(t)
  /\ LET n == _newPage(_pageBuffer, nextCtx)
     IN /\ _pageBuffer' = n.buffer
        /\ jobs' = [jobs EXCEPT ![t].pc = "newPage", ![t].ctx = n.got]
  /\ contexts' = [contexts EXCEPT ![nextCtx] = "creating"]
  /\ nextCtx' = nextCtx + 1

\* The awaited {page, context} is there: _defineRequestContextForPage is
\* awaited.
GotPage(t) ==
  /\ ProcessPage
  /\ jobs[t].pc = "newPage"
  /\ contexts[jobs[t].ctx] = "open"
  /\ jobs' = [jobs EXCEPT ![t].pc = "context"]
  /\ UNCHANGED <<_pageBuffer, contexts, nextCtx>>

\* The awaited promise of the buffer is rejected: _processPage throws.
NewPageFails(t) ==
  /\ ProcessPage
  /\ jobs[t].pc = "newPage"
  /\ contexts[jobs[t].ctx] = "failed"
  /\ jobs' = [jobs EXCEPT ![t].pc = "thrown"]
  /\ UNCHANGED <<_pageBuffer, contexts, nextCtx>>

\* _defineRequestContextForPage resolves: the 'response' listener is added
\* and page.goto is awaited.
ContextDefined(t) ==
  /\ ProcessPage
  /\ jobs[t].pc = "context"
  /\ jobs' = [jobs EXCEPT ![t].pc = "goto"]
  /\ UNCHANGED <<_pageBuffer, contexts, nextCtx>>

\* page.setRequestInterception rejects: _processPage throws.
ContextDefineFails(t) ==
  /\ ProcessPage
  /\ jobs[t].pc = "context"
  /\ jobs' = [jobs EXCEPT ![t].pc = "thrown"]
  /\ UNCHANGED <<_pageBuffer, contexts, nextCtx>>

\* PageTask.process() on the {page, context} its constructor was given, up to
\* `await this.renderer.goto(page, url, waitTime.max)`.
StartPageTask(t, minWait, status) ==
  /\ PageTask
  /\ NextJob(t)
  /\ jobs' = [jobs EXCEPT ![t].pc = "goto", ![t].ctx = nextCtx,
                          ![t].minWait = minWait, ![t].status = status]
  /\ contexts' = [contexts EXCEPT ![nextCtx] = "open"]
  /\ nextCtx' = nextCtx + 1
  /\ UNCHANGED _pageBuffer

\* The missing response returned as an empty result.
ProcessPageAfterGotoNoError(j) ==
  IF j.response = 0
  THEN [j EXCEPT !.pc = "done"]
  ELSE [j EXCEPT !.pc = "inject", !.loc = "requested"]

\* Renderer._processPage after the try/catch around page.goto:
\*   if (!response) return { error: 'no_response' };
\* else the status is read and injectBaseHref is evaluated.
ProcessPageAfterGoto(j) ==
  IF j.response = 0
  THEN [j EXCEPT !.pc = "done", !.result = [NoResult EXCEPT !.error = "no_response"]]
  ELSE [j EXCEPT !.pc = "inject", !.loc = "requested"]

\* BrowserPage.goto after page.goto has settled, and the catch of
\* PageTask.process around it:
\*   timeout: FetchError('no_response', true); no response: FetchError(
\*   'no_response'); the task's result is {error: err.message,
\*   timeout: Boolean(err.timeout)}.
PageTaskAfterGoto(j) ==
  IF j.slow
  THEN [j EXCEPT !.pc = "done", !.timeout = TRUE,
                 !.result = [NoResult EXCEPT !.error = "no_response",
                                             !.timeout = "true"]]
  ELSE IF j.response = 0
  THEN [j EXCEPT !.pc = "done",
                 !.result = [NoResult EXCEPT !.error = "no_response",
                                             !.timeout = "false"]]
  ELSE [j EXCEPT !.pc = "inject", !.loc = "requested"]

\* The navigation has ended: the count of its responses is dropped.
AfterGoto(j) ==
  LET k == [j EXCEPT !.emitted = 0]
  IN IF system = "processPage" THEN ProcessPageAfterGoto(k)
     ELSE PageTaskAfterGoto(k)

\* The 'response' listener: if (!response) response = r
Listener(response, r) == IF response = 0 THEN r ELSE response

\* The page emits 'response' during the navigation (the first hop of the
\* main document first, then redirect hops and sub-resources).
ResponseSeen(t) ==
  /\ Page
  /\ jobs[t].pc = "goto"
  /\ jobs[t].emitted < MaxResponses
  /\ jobs' = [jobs EXCEPT ![t].emitted = @ + 1,
                          ![t].response = Listener(@, jobs[t].emitted + 1)]
  /\ UNCHANGED <<_pageBuffer, contexts, nextCtx>>

\* `response = await page.goto(...)` resolves, with one of the responses
\* emitted (the last response of the main document) or with null, and the
\* assignment replaces what the listener has stored.
GotoResolves(t, r) ==
  /\ Page
  /\ jobs[t].pc = "goto"
  /\ r <= jobs[t].emitted
  /\ jobs' = [jobs EXCEPT ![t] = AfterGoto([@ EXCEPT !.response = r])]
  /\ UNCHANGED <<_pageBuffer, contexts, nextCtx>>

\* page.goto rejects with 'Navigation Timeout Exceeded'.
\*   Renderer._processPage: timeout = true
GotoTimesOut(t) ==
  /\ Page
  /\ jobs[t].pc = "goto"
  /\ jobs' = [jobs EXCEPT ![t] =
                AfterGoto([@ EXCEPT !.slow = TRUE,
                                    !.timeout = (system = "processPage")])]
  /\ UNCHANGED <<_pageBuffer, contexts, nextCtx>>

\* page.goto rejects with another error, which is logged.
GotoFails(t) ==
  /\ Page
  /\ jobs[t].pc = "goto"
  /\ jobs' = [jobs EXCEPT ![t] = AfterGoto(@)]
  /\ UNCHANGED <<_pageBuffer, contexts, nextCtx>>

EvaluateSteps == {"inject", "halt", "preUrl", "body", "postUrl"}

\* The page changes its location by itself (a client-side redirect).
ClientRedirect(t, u) ==
  /\ Page
  /\ jobs[t].pc \in EvaluateSteps \cup {"minWait"}
  /\ jobs[t].hops < MaxHops
  /\ u # jobs[t].loc
  /\ jobs' = [jobs EXCEPT ![t].loc = u, ![t].hops = @ + 1]
  /\ UNCHANGED <<_pageBuffer, contexts, nextCtx>>

\* Time passes between `const total = Date.now()` and the decision on the
\* minimum wait.
TimePasses(t) ==
  /\ PageTask
  /\ jobs[t].pc \in {"goto", "inject"}
  /\ jobs[t].elapsed < MaxElapsed
  /\ jobs' = [jobs EXCEPT ![t].elapsed = @ + 1]
  /\ UNCHANGED <<_pageBuffer, contexts, nextCtx>>

\* if (statusCode === 200 && minWait) {
\*   await page.waitForTimeout(minWait - (Date.now() - total)) }
MinWait(status, minWait, elapsed) ==
  IF status = 200 /\ minWait # 0
  THEN [sleeps |-> TRUE, ms |-> minWait - elapsed]
  ELSE [sleeps |-> FALSE, ms |-> 0]

\* PageTask.process after injectBaseHref: it sleeps or goes on to the
\* serialization; status, minimum and start time are not used again.
PageTaskAfterInject(j) ==
  LET w == MinWait(j.status, j.minWait, j.elapsed)
  IN [j EXCEPT !.pc = IF w.sleeps THEN "minWait" ELSE "halt",
               !.sleep = w.ms, !.status = 0, !.minWait = 0, !.elapsed = 0]

\* page.evaluate(injectBaseHref, baseHref) resolves.
InjectDone(t) ==
  /\ Page
  /\ jobs[t].pc = "inject"
  /\ jobs' = [jobs EXCEPT ![t] = IF system = "pageTask"
                                 THEN PageTaskAfterInject(@)
                                 ELSE [@ EXCEPT !.pc = "halt"]]
  /\ UNCHANGED <<_pageBuffer, contexts, nextCtx>>

\* page.waitForTimeout(...) resolves.
MinWaitDone(t) ==
  /\ PageTask
  /\ jobs[t].pc = "minWait"
  /\ jobs' = [jobs EXCEPT ![t].pc = "halt", ![t].sleep = 0]
  /\ UNCHANGED <<_pageBuffer, contexts, nextCtx>>

\* page.evaluate(() => { debugger; }) resolves.
HaltDone(t) ==
  /\ Page
  /\ jobs[t].pc = "halt"
  /\ jobs' = [jobs EXCEPT ![t].pc = "preUrl"]
  /\ UNCHANGED <<_pageBuffer, contexts, nextCtx>>

\* preSerializationUrl = await page.evaluate('window.location.href')
ReadPreUrl(t) ==
  /\ Page
  /\ jobs[t].pc = "preUrl"
  /\ jobs' = [jobs EXCEPT ![t].pc = "body", ![t].pre = jobs[t].loc]
  /\ UNCHANGED <<_pageBuffer, contexts, nextCtx>>

\* body = await page.evaluate('document.firstElementChild.outerHTML'): the
\* document of the URL the page is on.
ReadBody(t) ==
  /\ Page
  /\ jobs[t].pc = "body"
  /\ jobs' = [jobs EXCEPT ![t].pc = "postUrl", ![t].body = jobs[t].loc]
  /\ UNCHANGED <<_pageBuffer, contexts, nextCtx>>

\* resolvedUrl = await page.evaluate('window.location.href'); context.close()
\* is awaited.
ReadPostUrl(t) ==
  /\ Page
  /\ jobs[t].pc = "postUrl"
  /\ jobs' = [jobs EXCEPT ![t].pc = "closing", ![t].post = jobs[t].loc]
  /\ UNCHANGED <<_pageBuffer, contexts, nextCtx>>

\* One of the page.evaluate calls rejects: the function throws.
EvaluateThrows(t) ==
  /\ Page
  /\ jobs[t].pc \in EvaluateSteps
  /\ jobs' = [jobs EXCEPT ![t].pc = "thrown"]
  /\ UNCHANGED <<_pageBuffer, contexts, nextCtx>>

\* The redirect check left out: the serialized document is always returned.
SerializedUnchecked(j) ==
  [NoResult EXCEPT !.statusCode = TRUE, !.body = j.body, !.resolvedUrl = j.post]

\* if (preSerializationUrl !== resolvedUrl) { error: 'unsafe_redirect' }
\* else Renderer._processPage: { statusCode, headers, body, timeout, resolvedUrl }
\*      PageTask.process:      { statusCode, headers, body, resolvedUrl }
Serialized(j) ==
  IF j.pre # j.post THEN [NoResult EXCEPT !.error = "unsafe_redirect"]
  ELSE [NoResult EXCEPT
          !.statusCode = TRUE, !.body = j.body, !.resolvedUrl = j.post,
          !.timeout = IF system = "pageTask" THEN "absent"
                      ELSE IF j.timeout THEN "true" ELSE "false"]

\* `await context.close()` resolves: the two URLs are compared and the result
\* is built.
ContextClosed(t) ==
  /\ Page
  /\ jobs[t].pc = "closing"
  /\ contexts' = [contexts EXCEPT ![jobs[t].ctx] = "closed"]
  /\ jobs' = [jobs EXCEPT ![t].pc = "done", ![t].result = Serialized(jobs[t])]
  /\ UNCHANGED <<_pageBuffer, nextCtx>>

\* `await context.close()` rejects: the function throws.
ContextCloseFails(t) ==
  /\ Page
  /\ jobs[t].pc = "closing"
  /\ jobs' = [jobs EXCEPT ![t].pc = "thrown"]
  /\ UNCHANGED <<_pageBuffer, contexts, nextCtx>>

\* ------------------------------------------------- Renderer: task and stop

\* A step of the one Renderer.
OneRenderer ==
  system = "renderer" /\ UNCHANGED <<system, rollingVars, managerVars, filterVars,
               shutdownVars>>

\* A stop() call: where it stands, and the tasks whose promises it handed to
\* Promise.all.
NoStopCall == [pc |-> "idle", awaited |-> {}]

\* The Renderer.stop() call made next.
NextStopCall(s) ==
  stopCalls[s].pc = "idle" /\ \A u \in StopIds : u < s => stopCalls[u].pc # "idle"

\* _createNewPage() from its call to its first wait on I/O:
\*   if (this._stopping) throw ...; browser = await this._getBrowser();
\*   context = await browser.createIncognitoBrowserContext()
\* The promise it returns is rejected ("failed"), waits for the launch
\* ("waitBrowser") or for the context and its page ("creating").
_createNewPage(isStopping, browser) ==
  IF isStopping THEN "failed"
  ELSE IF browser = "launching" THEN "waitBrowser"
  ELSE IF browser = "up" THEN "creating"
  ELSE "failed"

\* _processPage at `await this._newPage()`, given the promise it awaits; the
\* rest of _processPage is "process".
AwaitNewPage(page) ==
  IF page = "open" THEN "process"
  ELSE IF page = "failed" THEN "thrown"
  ELSE "newPage"

\* The jobs at `await this._newPage()` go on when the promise they await has
\* settled.
ResumeJobs(js, cx) ==
  [t \in JobIds |-> IF js[t].pc = "newPage"
                    THEN [js[t] EXCEPT !.pc = AwaitNewPage(cx[js[t].ctx])]
                    ELSE js[t]]

\* stop() with the tasks not waited for.
AwaitNoTasks(js, awaited) == "resolved"

\* await Promise.all(this._currentTasks.map(({ promise }) => promise)):
\* rejected as soon as one of the promises is, resolved when all are.
AwaitTasks(js, awaited) ==
  IF \E t \in awaited : js[t].pc = "thrown" THEN "rejected"
  ELSE IF \E t \in awaited : js[t].pc \in {"newPage", "process"} THEN "pending"
  ELSE "resolved"

\* await Promise.all(this._pageBuffer)
AwaitPages(cx, buffer) ==
  IF \E i \in DOMAIN buffer : cx[buffer[i]] = "failed" THEN "rejected"
  ELSE IF \E i \in DOMAIN buffer : cx[buffer[i]] # "open" THEN "pending"
  ELSE "resolved"

\* stop() after its `while (!this.ready)`, as far as it gets without waiting:
\* the tasks, then the page buffer, then _getBrowser() and browser.close().
StopRun(pc, js, awaited, cx, buffer) ==
  LET tasks == IF pc = "waitTasks" THEN AwaitTasks(js, awaited) ELSE "resolved"
      pages == AwaitPages(cx, buffer)
  IN IF tasks = "rejected" THEN "failed"
     ELSE IF tasks = "pending" THEN "waitTasks"
     ELSE IF pages = "rejected" THEN "failed"
     ELSE IF pages = "pending" THEN "waitPages"
     ELSE "closing"

\* Every stop() call that waits for tasks or pages goes on as far as the
\* state the step leaves lets it; each one that gets there calls
\* browser.close().
SetStopCalls(st, js, cx, buffer) ==
  LET run == [s \in StopIds |->
                IF st[s].pc \in {"waitTasks", "waitPages"}
                THEN [st[s] EXCEPT
                        !.pc = StopRun(st[s].pc, js, st[s].awaited, cx, buffer)]
                ELSE st[s]]
  IN /\ stopCalls' = run
     /\ closes' = closes + Cardinality({s \in StopIds : st[s].pc # "closing"
                                                     /\ run[s].pc = "closing"})

\* The .then of Promise.all(this._pageBuffer) in the constructor: the pages
\* the constructor started are all there.
BufferFilled(cx) == \A c \in 1..PAGE_BUFFER_SIZE : cx[c] = "open"

\* What the settling of page promises sets off: ready, the jobs waiting for
\* their page, the stop() calls waiting for tasks or pages.
PagesSettle(cx) ==
  LET js == ResumeJobs(jobs, cx)
  IN /\ contexts' = cx
     /\ jobs' = js
     /\ rReady' = (rReady \/ BufferFilled(cx))
     /\ SetStopCalls(stopCalls, js, cx, _pageBuffer)

\* _createBrowser() resolves: every _createNewPage() waiting in _getBrowser()
\* calls browser.createIncognitoBrowserContext().
LaunchResolves ==
  /\ OneRenderer
  /\ _browser = "launching"
  /\ _browser' = "up"
  /\ contexts' = [c \in CtxIds |-> IF contexts[c] = "waitBrowser" THEN "creating"
                                   ELSE contexts[c]]
  /\ UNCHANGED <<_pageBuffer, nextCtx, jobs, rReady, rStopping, _currentTasks,
                 stopCalls, closes>>

\* _createBrowser() rejects: so does every _createNewPage() waiting for it.
LaunchRejects ==
  /\ OneRenderer
  /\ _browser = "launching"
  /\ _browser' = "failed"
  /\ PagesSettle([c \in CtxIds |-> IF contexts[c] = "waitBrowser" THEN "failed"
                                   ELSE contexts[c]])
  /\ UNCHANGED <<_pageBuffer, nextCtx, rStopping, _currentTasks>>

\* _createNewPage() resolves with its {page, context}.
CreateResolves(c) ==
  /\ OneRenderer
  /\ contexts[c] = "creating"
  /\ PagesSettle([contexts EXCEPT ![c] = "open"])
  /\ UNCHANGED <<_pageBuffer, nextCtx, rStopping, _browser, _currentTasks>>

\* createIncognitoBrowserContext, newPage or a page setting rejects.
CreateRejects(c) ==
  /\ OneRenderer
  /\ contexts[c] = "creating"
  /\ PagesSettle([contexts EXCEPT ![c] = "failed"])
  /\ UNCHANGED <<_pageBuffer, nextCtx, rStopping, _browser, _currentTasks>>

\* Renderer.task(job): refused on a stopping Renderer; else _processPage runs
\* to `await this._newPage()` (a page is pushed, the head is shifted) and the
\* task is listed.
RendererTask(t) ==
  /\ OneRenderer
  /\ NextJob(t)
  /\ IF rStopping
     THEN /\ jobs' = [jobs EXCEPT ![t].pc = "refused"]
          /\ UNCHANGED <<_pageBuffer, contexts, nextCtx, _currentTasks>>
     ELSE LET n == _newPage(_pageBuffer, nextCtx)
              cx == [contexts EXCEPT ![nextCtx] = _createNewPage(rStopping, _browser)]
          IN /\ _pageBuffer' = n.buffer
             /\ contexts' = cx
             /\ nextCtx' = nextCtx + 1
             /\ jobs' = [jobs EXCEPT ![t].pc = AwaitNewPage(cx[n.got]),
                                     ![t].ctx = n.got]
             /\ _currentTasks' = _currentTasks \cup {t}
  /\ UNCHANGED <<rReady, rStopping, _browser, stopCalls, closes>>

\* `const res = await promise` resolves: this._removeTask({ id }); return res
ProcessResolves(t) ==
  /\ OneRenderer
  /\ jobs[t].pc = "process"
  /\ LET js == [jobs EXCEPT ![t].pc = "done"]
         listed == _currentTasks \ {t}
     IN /\ jobs' = js
        /\ _currentTasks' = listed
        /\ SetStopCalls(stopCalls, js, contexts, _pageBuffer)
  /\ UNCHANGED <<_pageBuffer, contexts, nextCtx, rReady, rStopping, _browser>>

\* `const res = await promise` rejects: task() throws, _removeTask is not
\* reached.
ProcessRejects(t) ==
  /\ OneRenderer
  /\ jobs[t].pc = "process"
  /\ LET js == [jobs EXCEPT ![t].pc = "thrown"]
     IN /\ jobs' = js
        /\ SetStopCalls(stopCalls, js, contexts, _pageBuffer)
  /\ UNCHANGED <<_pageBuffer, contexts, nextCtx, rReady, rStopping, _browser,
                 _currentTasks>>

\* stop() from its call: this._stopping = true, then the `while` that polls
\* `ready` every 100 ms, or with ready already true the waits that follow.
RendererStop(s) ==
  /\ OneRenderer
  /\ NextStopCall(s)
  /\ rStopping' = TRUE
  /\ SetStopCalls([stopCalls EXCEPT
                     ![s] = IF rReady
                            THEN [pc |-> "waitTasks", awaited |-> _currentTasks]
                            ELSE [pc |-> "waitReady", awaited |-> {}]],
                  jobs, contexts, _pageBuffer)
  /\ UNCHANGED <<_pageBuffer, contexts, nextCtx, jobs, rReady, _browser,
                 _currentTasks>>

\* The poll of stop() finds ready true.
StopPollsReady(s) ==
  /\ OneRenderer
  /\ stopCalls[s].pc = "waitReady"
  /\ rReady
  /\ SetStopCalls([stopCalls EXCEPT
                     ![s] = [pc |-> "waitTasks", awaited |-> _currentTasks]],
                  jobs, contexts, _pageBuffer)
  /\ UNCHANGED <<_pageBuffer, contexts, nextCtx, jobs, rReady, rStopping,
                 _browser, _currentTasks>>

\* `await browser.close()` resolves: stop() resolves.
BrowserCloseResolves(s) ==
  /\ OneRenderer
  /\ stopCalls[s].pc = "closing"
  /\ stopCalls' = [stopCalls EXCEPT ![s].pc = "done"]
  /\ _browser' = "closed"
  /\ UNCHANGED <<_pageBuffer, contexts, nextCtx, jobs, rReady, rStopping,
                 _currentTasks, closes>>

\* `await browser.close()` rejects: stop() rejects.
BrowserCloseRejects(s) ==
  /\ OneRenderer
  /\ stopCalls[s].pc = "closing"
  /\ stopCalls' = [stopCalls EXCEPT ![s].pc = "closeFailed"]
  /\ UNCHANGED <<_pageBuffer, contexts, nextCtx, jobs, rReady, rStopping,
                 _browser, _currentTasks, closes>>

\* ----------------------------------------------------------- gracefulClose

\* A step of the shutdown; the process has not exited.
Shutdown ==
  /\ system = "shutdown"
  /\ exits = 0
  /\ UNCHANGED <<system, rollingVars, pageVars, rendererVars, filterVars,
                 tmHealthy>>

\* A gracefulClose() call: where it stands and, once it has called
\* tasksManager.stop(), which stop() call that is.
NoCloseCall == [pc |-> "idle", stop |-> 0]

\* The gracefulClose() call made next.
NextSignal(c) ==
  closeCalls[c].pc = "idle" /\ \A u \in SignalIds : u < c => closeCalls[u].pc # "idle"

\* The flag not looked at: every call runs the sequence.
NeverSwallowed(closing) == FALSE

\* if (gracefullyClosing) return
Swallowed(closing) == closing

\* gracefulClose(opts) up to its first await: swallowed when the flag is set;
\* else the flag is set and close() calls api.stop(callback), which throws
\* at once or leaves the callback for later.
GracefulClose(c, throws) ==
  /\ Shutdown
  /\ NextSignal(c)
  /\ IF Swallowed(gracefullyClosing)
     THEN /\ closeCalls' = [closeCalls EXCEPT ![c].pc = "swallowed"]
          /\ UNCHANGED <<gracefullyClosing, api, apiStops>>
     ELSE /\ gracefullyClosing' = TRUE
          /\ apiStops' = apiStops + 1
          /\ IF throws
             THEN /\ closeCalls' = [closeCalls EXCEPT ![c].pc = "failed"]
                  /\ UNCHANGED api
             ELSE /\ closeCalls' = [closeCalls EXCEPT ![c].pc = "awaitApi"]
                  /\ api' = "stopping"
  /\ UNCHANGED <<drain, drains, exits, tmStopping, tmBrowser, tmTasks,
                 tmLaunch, calls, stops, browserStops, totalRun>>

\* The callback of api.stop() runs: webServerPromise resolves and every
\* close() that awaits it calls tasksManager.stop(), which runs to its first
\* wait.
ApiStopped(c, s) ==
  /\ Shutdown
  /\ api = "stopping"
  /\ closeCalls[c].pc = "awaitApi"
  /\ NextStop(s)
  /\ api' = "stopped"
  /\ closeCalls' = [closeCalls EXCEPT ![c] = [pc |-> "awaitStop", stop |-> s]]
  /\ tmStopping' = TRUE
  /\ SetStops(StopCalled(s, calls, tmTasks))
  /\ UNCHANGED <<gracefullyClosing, apiStops, drain, drains, exits, tmBrowser,
                 tmLaunch, calls, totalRun>>

\* `await tasksManager.stop()` resolves: close() returns and gracefulClose
\* calls reporting.drain().
ManagerStopped(c) ==
  /\ Shutdown
  /\ closeCalls[c].pc = "awaitStop"
  /\ stops[closeCalls[c].stop].pc = "done"
  /\ closeCalls' = [closeCalls EXCEPT ![c].pc = "awaitDrain"]
  /\ drain' = "pending"
  /\ drains' = drains + 1
  /\ UNCHANGED <<gracefullyClosing, api, apiStops, exits, tmStopping,
                 tmBrowser, tmTasks, tmLaunch, calls, stops, browserStops,
                 totalRun>>

\* reporting.drain() resolves: process.exit(0).
DrainResolves(c) ==
  /\ Shutdown
  /\ closeCalls[c].pc = "awaitDrain"
  /\ drain = "pending"
  /\ drain' = "resolved"
  /\ closeCalls' = [closeCalls EXCEPT ![c].pc = "exited"]
  /\ exits' = exits + 1
  /\ UNCHANGED <<gracefullyClosing, api, apiStops, drains, tmStopping,
                 tmBrowser, tmTasks, tmLaunch, calls, stops, browserStops,
                 totalRun>>

\* reporting.drain() rejects: gracefulClose rejects, the process stays.
DrainRejects(c) ==
  /\ Shutdown
  /\ closeCalls[c].pc = "awaitDrain"
  /\ drain = "pending"
  /\ drain' = "rejected"
  /\ closeCalls' = [closeCalls EXCEPT ![c].pc = "failed"]
  /\ UNCHANGED <<gracefullyClosing, api, apiStops, drains, exits, tmStopping,
                 tmBrowser, tmTasks, tmLaunch, calls, stops, browserStops,
                 totalRun>>

\* ------------------------------------------------- the 'request' handler

\* A step of the handler page.on('request', ...).
Filter ==
  /\ system = "filter"
  /\ UNCHANGED <<system, rollingVars, managerVars, pageVars, rendererVars,
                 shutdownVars>>

\* One intercepted request: where its handler stands; whether its URL is a
\* data URI, its resource type is in IGNORED_RESOURCES, the ad-block matcher
\* matches it; how validateURL ended; whether console.error was called; what
\* became of the request, and how many times abort() or continue() was
\* called on it.
NoRequest ==
  [pc |-> "none", data |-> FALSE, ignored |-> FALSE, match |-> FALSE,
   validation |-> "none", logged |-> FALSE, outcome |-> "pending",
   attempts |-> 0]

Validations == {"ok", "enotfound", "denied"}

NoMetrics == [requests |-> 0, blockedRequests |-> 0]

\* req.abort() / req.continue(): puppeteer resolves a request once; a call on
\* a request already handled throws 'Request is already handled', which both
\* handlers catch and ignore.
Resolve(r, how) ==
  [r EXCEPT !.outcome = IF @ = "pending" THEN how ELSE @, !.attempts = @ + 1]

Blocked(m) == [m EXCEPT !.blockedRequests = @ + 1]

\* The handler of BrowserPage.#updateContext up to `await validateURL(...)`:
\*   this.#metrics.requests += 1;
\*   if (DATA_REGEXP.test(reqUrl)) { blockedRequests += 1; req.abort(); return }
BrowserPageRequest(r, m) ==
  LET seen == [m EXCEPT !.requests = @ + 1]
  IN IF r.data
     THEN [req |-> Resolve([r EXCEPT !.pc = "done"], "aborted"),
           metrics |-> Blocked(seen)]
     ELSE [req |-> [r EXCEPT !.pc = "validating"], metrics |-> seen]

\* The ignored resource types let through.
BrowserPageKeepsIgnored(r, v, m, adb) ==
  IF v # "ok"
  THEN [req |-> Resolve([r EXCEPT !.logged = (v # "enotfound")], "aborted"),
        metrics |-> IF v # "enotfound" THEN Blocked(m) ELSE m]
  ELSE IF adb /\ r.match
  THEN [req |-> Resolve(r, "aborted"), metrics |-> Blocked(m)]
  ELSE [req |-> Resolve(r, "continued"), metrics |-> m]

\* The handler of BrowserPage.#updateContext after validateURL has settled:
\*   catch (err) { if (!err.message.includes('ENOTFOUND')) {
\*     console.error(err); blockedRequests += 1 }  req.abort(); return }
\*   ignored resource type, or adblock and a match: blockedRequests += 1,
\*   req.abort(); else req.continue().
BrowserPageValidated(r, v, m, adb) ==
  IF v # "ok"
  THEN [req |-> Resolve([r EXCEPT !.logged = (v # "enotfound")], "aborted"),
        metrics |-> IF v # "enotfound" THEN Blocked(m) ELSE m]
  ELSE IF r.ignored
  THEN [req |-> Resolve(r, "aborted"), metrics |-> Blocked(m)]
  ELSE IF adb /\ r.match
  THEN [req |-> Resolve(r, "aborted"), metrics |-> Blocked(m)]
  ELSE [req |-> Resolve(r, "continued"), metrics |-> m]

\* The handler of Renderer._defineRequestContextForPage after validateURL has
\* settled: its catch calls req.abort() and does not return, so the second
\* try block runs for every request: req.abort() for an ignored resource
\* type, req.continue() otherwise.
RendererValidated(r, v, m) ==
  LET a == IF v # "ok" THEN Resolve(r, "aborted") ELSE r
  IN [req |-> IF r.ignored THEN Resolve(a, "aborted")
              ELSE Resolve(a, "continued"),
      metrics |-> m]

\* The request intercepted next: ids are used in order.
NextRequest(q) ==
  reqs[q].pc = "none" /\ \A u \in ReqIds : u < q => reqs[u].pc # "none"

\* The page emits 'request': the handler runs to its first await.
RequestIntercepted(q, data, ignored, match) ==
  /\ Filter
  /\ NextRequest(q)
  /\ LET r == [reqs[q] EXCEPT !.data = data, !.ignored = ignored,
                             !.match = match]
         k == IF handler = "BrowserPage" THEN BrowserPageRequest(r, metrics)
              ELSE [req |-> [r EXCEPT !.pc = "validating"], metrics |-> metrics]
     IN /\ reqs' = [reqs EXCEPT ![q] = k.req]
        /\ metrics' = k.metrics
  /\ UNCHANGED <<handler, adblock>>

\* validateURL settles: the rest of the handler runs.
ValidationSettles(q, v) ==
  /\ Filter
  /\ reqs[q].pc = "validating"
  /\ LET r == [reqs[q] EXCEPT !.pc = "done", !.validation = v]
         k == IF handler = "BrowserPage"
              THEN BrowserPageValidated(r, v, metrics, adblock)
              ELSE RendererValidated(r, v, metrics)
     IN /\ reqs' = [reqs EXCEPT ![q] = k.req]
        /\ metrics' = k.metrics
  /\ UNCHANGED <<handler, adblock>>

\* ------------------------------------------------------------ specification

\* Renderer.constructor: PAGE_BUFFER_SIZE pages are being created.
PageFields ==
  /\ _pageBuffer = [i \in 1..PAGE_BUFFER_SIZE |-> i]
  /\ contexts = [c \in CtxIds |-> IF c <= PAGE_BUFFER_SIZE THEN "creating"
                                  ELSE "none"]
  /\ nextCtx = PAGE_BUFFER_SIZE + 1
  /\ jobs = [t \in JobIds |-> NoJob]

\* No Renderer: PageTask is given its {page, context}.
NoPageBuffer ==
  /\ _pageBuffer = <<>>
  /\ contexts = [c \in CtxIds |-> "none"]
  /\ nextCtx = 1
  /\ jobs = [t \in JobIds |-> NoJob]

\* Renderer.constructor: not ready, not stopping, the browser launching, no
\* task listed; no stop() call made.
RendererFields ==
  /\ rReady = FALSE
  /\ rStopping = FALSE
  /\ _browser = "launching"
  /\ _currentTasks = {}
  /\ stopCalls = [s \in StopIds |-> NoStopCall]
  /\ closes = 0

\* The pages the constructor starts wait for the browser in _getBrowser().
RendererPageFields ==
  /\ _pageBuffer = [i \in 1..PAGE_BUFFER_SIZE |-> i]
  /\ contexts = [c \in CtxIds |->
                   IF c <= PAGE_BUFFER_SIZE
                   THEN _createNewPage(FALSE, "launching") ELSE "none"]
  /\ nextCtx = PAGE_BUFFER_SIZE + 1
  /\ jobs = [t \in JobIds |-> NoJob]

\* No page with a handler.
FilterFields ==
  /\ handler = "BrowserPage"
  /\ adblock = FALSE
  /\ metrics = NoMetrics
  /\ reqs = [q \in ReqIds |-> NoRequest]

\* The process serves: no signal received.
ShutdownFields ==
  /\ gracefullyClosing = FALSE
  /\ closeCalls = [c \in SignalIds |-> NoCloseCall]
  /\ api = "running"
  /\ apiStops = 0
  /\ drain = "idle"
  /\ drains = 0
  /\ exits = 0

\* The TasksManager as its field initialisers leave it, no call made.
ManagerFields ==
  /\ tmStopping = TRUE
  /\ tmBrowser = "null"
  /\ tmTasks = [t \in TaskIds |-> NoEntry]
  /\ tmLaunch = "idle"
  /\ calls = [t \in TaskIds |-> NoCall]
  /\ stops = [s \in StopIds |-> NoStop]
  /\ browserStops = 0
  /\ totalRun = 0
  /\ tmHealthy = "unread"

\* RollingRenderer.constructor
PoolFields ==
  /\ _stopping = FALSE
  /\ _currentRenderer = 1
  /\ _futureRenderer = 0
  /\ _previousStopPromise = 0
  /\ renderers = [r \in RendererIds |-> IF r = 1 THEN NewRenderer ELSE NoRenderer]
  /\ nextId = 2
  /\ poolStop = "idle"
  /\ held = 0
  /\ last = Called("none", 0, "")

InitRolling ==
  /\ system = "rolling"
  /\ PoolFields
  /\ ManagerFields
  /\ PageFields
  /\ RendererFields
  /\ FilterFields
  /\ ShutdownFields

NextRolling ==
  \/ Task
  \/ Ready
  \/ Healthy
  \/ GetRenderer
  \/ HeldTask
  \/ Stop
  \/ StopAfterPrevious
  \/ StopAfterCurrent
  \/ StopAfterFuture
  \/ \E r \in RendererIds :
       \/ RendererReady(r)
       \/ RendererLaunchFails(r)
       \/ TaskDone(r)
       \/ TaskFail(r)
       \/ StopSeesReady(r)
       \/ StopTasksSettled(r)
       \/ StopTasksReject(r)
       \/ StopPagesSettled(r)
       \/ StopClosed(r)

SpecRolling == InitRolling /\ [][NextRolling]_vars

\* The pool with everything a Renderer waits for settling in the end: the
\* launch of its browser, every task it was given, and each step of a stop()
\* once what that step awaits is there (the 100 ms poll of `ready`, the two
\* Promise.all, browser.close()).
LiveRolling ==
  /\ SpecRolling
  /\ \A r \in RendererIds :
       /\ WF_vars(RendererReady(r) \/ RendererLaunchFails(r))
       /\ WF_vars(TaskDone(r) \/ TaskFail(r))
       /\ WF_vars(StopSeesReady(r))
       /\ WF_vars(StopTasksSettled(r) \/ StopTasksReject(r))
       /\ WF_vars(StopPagesSettled(r))
       /\ WF_vars(StopClosed(r))

InitManagerA ==
  /\ system = "managerA"
  /\ PoolFields
  /\ ManagerFields
  /\ PageFields
  /\ RendererFields
  /\ FilterFields
  /\ ShutdownFields

NextManagerA ==
  \/ LaunchStart
  \/ LaunchDone
  \/ \E s \in StopIds : StopCall(s) \/ BrowserStopped(s)
  \/ \E isReady \in BOOLEAN : HealthyGet(isReady)
  \/ \E t \in TaskIds :
       \/ TtlElapses(t)
       \/ SubmitA(t)
       \/ PageCreatedA(t)
       \/ PageCreateFailsA(t)
       \/ \E s \in StopIds : TimerFiresA(t, s)
       \/ LinkDoneA(t)
       \/ LinkFailsA(t)
       \/ ProcessSettlesA(t)
       \/ CloseDoneA(t)
       \/ CloseFailsA(t)
       \/ RemoveDoneA(t)
       \/ RemoveFailsA(t)

SpecManagerA == InitManagerA /\ [][NextManagerA]_vars

InitManagerB ==
  /\ system = "managerB"
  /\ PoolFields
  /\ ManagerFields
  /\ PageFields
  /\ RendererFields
  /\ FilterFields
  /\ ShutdownFields

NextManagerB ==
  \/ LaunchStart
  \/ LaunchDone
  \/ \E s \in StopIds : StopCall(s) \/ BrowserStopped(s)
  \/ \E isReady \in BOOLEAN : HealthyGet(isReady)
  \/ \E t \in TaskIds :
       \/ TtlElapses(t)
       \/ SubmitB(t)
       \/ ContextDoneB(t)
       \/ ContextFailsB(t)
       \/ ProcessDoneB(t)
       \/ ProcessFailsB(t)
       \/ MetricsSettlesB(t)
       \/ CloseDoneB(t)
       \/ CloseFailsB(t)

SpecManagerB == InitManagerB /\ [][NextManagerB]_vars

PageSteps(t) ==
  \/ ResponseSeen(t)
  \/ \E r \in 0..MaxResponses : GotoResolves(t, r)
  \/ GotoTimesOut(t)
  \/ GotoFails(t)
  \/ \E u \in Urls : ClientRedirect(t, u)
  \/ InjectDone(t)
  \/ HaltDone(t)
  \/ ReadPreUrl(t)
  \/ ReadBody(t)
  \/ ReadPostUrl(t)
  \/ EvaluateThrows(t)
  \/ ContextClosed(t)
  \/ ContextCloseFails(t)

InitProcessPage ==
  /\ system = "processPage"
  /\ PoolFields
  /\ ManagerFields
  /\ PageFields
  /\ RendererFields
  /\ FilterFields
  /\ ShutdownFields

NextProcessPage ==
  \/ \E c \in CtxIds : PageCreated(c) \/ PageCreateFails(c)
  \/ \E t \in JobIds :
       \/ StartProcessPage(t)
       \/ GotPage(t)
       \/ NewPageFails(t)
       \/ ContextDefined(t)
       \/ ContextDefineFails(t)
       \/ PageSteps(t)

SpecProcessPage == InitProcessPage /\ [][NextProcessPage]_vars

InitPageTask ==
  /\ system = "pageTask"
  /\ PoolFields
  /\ ManagerFields
  /\ NoPageBuffer
  /\ RendererFields
  /\ FilterFields
  /\ ShutdownFields

NextPageTask ==
  \E t \in JobIds :
    \/ \E minWait \in MinWaits, status \in Statuses :
         StartPageTask(t, minWait, status)
    \/ TimePasses(t)
    \/ MinWaitDone(t)
    \/ PageSteps(t)

SpecPageTask == InitPageTask /\ [][NextPageTask]_vars

\* Either implementation of the processing of a page.
InitPages == InitProcessPage \/ InitPageTask

NextPages == NextProcessPage \/ NextPageTask

SpecPages == InitPages /\ [][NextPages]_vars

\* Renderer._processPage with the navigation bounded by TIMEOUT: page.goto
\* has settled, at the latest by its timeout, in every behaviour.  No other
\* awaited operation carries a bound.
LiveProcessPage ==
  SpecProcessPage /\ \A t \in JobIds : WF_vars(GotoTimesOut(t))

InitRenderer ==
  /\ system = "renderer"
  /\ PoolFields
  /\ ManagerFields
  /\ RendererPageFields
  /\ RendererFields
  /\ FilterFields
  /\ ShutdownFields

NextRenderer ==
  \/ LaunchResolves
  \/ LaunchRejects
  \/ \E c \in CtxIds : CreateResolves(c) \/ CreateRejects(c)
  \/ \E t \in JobIds :
       \/ RendererTask(t)
       \/ ProcessResolves(t)
       \/ ProcessRejects(t)
  \/ \E s \in StopIds :
       \/ RendererStop(s)
       \/ StopPollsReady(s)
       \/ BrowserCloseResolves(s)
       \/ BrowserCloseRejects(s)

SpecRenderer == InitRenderer /\ [][NextRenderer]_vars

\* A page whose handler has been registered: by BrowserPage.linkToTask for
\* a task with or without ad-blocking, or by _defineRequestContextForPage.
InitFilter ==
  /\ system = "filter"
  /\ PoolFields
  /\ ManagerFields
  /\ PageFields
  /\ RendererFields
  /\ handler \in {"BrowserPage", "Renderer"}
  /\ adblock \in (IF handler = "BrowserPage" THEN BOOLEAN ELSE {FALSE})
  /\ metrics = NoMetrics
  /\ reqs = [q \in ReqIds |-> NoRequest]
  /\ ShutdownFields

NextFilter ==
  \E q \in ReqIds :
    \/ \E data, ignored, match \in BOOLEAN : RequestIntercepted(q, data, ignored, match)
    \/ \E v \in Validations : ValidationSettles(q, v)

SpecFilter == InitFilter /\ [][NextFilter]_vars

\* Any of the three orchestration systems.
InitShutdown ==
  /\ system = "shutdown"
  /\ PoolFields
  /\ ManagerFields
  /\ PageFields
  /\ RendererFields
  /\ FilterFields
  /\ ShutdownFields

\* The process: the TasksManager serving tasks, and the signals.
NextShutdown ==
  \/ LaunchStart
  \/ LaunchDone
  \/ \E s \in StopIds : BrowserStopped(s)
  \/ \E t \in TaskIds :
       \/ SubmitA(t)
       \/ PageCreatedA(t)
       \/ PageCreateFailsA(t)
       \/ \E s \in StopIds : TimerFiresA(t, s)
       \/ LinkDoneA(t)
       \/ LinkFailsA(t)
       \/ ProcessSettlesA(t)
       \/ CloseDoneA(t)
       \/ CloseFailsA(t)
       \/ RemoveDoneA(t)
       \/ RemoveFailsA(t)
  \/ \E c \in SignalIds :
       \/ \E throws \in BOOLEAN : GracefulClose(c, throws)
       \/ \E s \in StopIds : ApiStopped(c, s)
       \/ ManagerStopped(c)
       \/ DrainResolves(c)
       \/ DrainRejects(c)

SpecShutdown == InitShutdown /\ [][NextShutdown]_vars

Init == InitRolling \/ InitManagerA \/ InitManagerB

Next == NextRolling \/ NextManagerA \/ NextManagerB

Spec == Init /\ [][Next]_vars

\* ------------------------------------------------- claims: RollingRenderer

\* The Renderer the pool's constructor creates.
InitialRenderer == 1

GetterOps == {"task", "ready", "healthy", "renderer"}

\* The step is a call that evaluated `get renderer()` to its end.
GetterRan == last'.op \in GetterOps /\ last'.err # "pool_stopping"

Created == {r \in RendererIds : renderers[r].exists}

\* Renderers constructed as replacements and not promoted: ids are handed out
\* in order and promoted in order, so they are the ids above the current one.
NotPromoted == {r \in Created : r > _currentRenderer}

\* Renderers whose stop() was called and has not settled.
StopInFlight ==
  {r \in Created : renderers[r].stop \notin {"idle", "stopped", "failed"}}

\* C1: RollingRenderer.task never invokes Renderer.task on a Renderer whose
\* _stopping flag is true: no task() call of the pool ends with the Renderer's
\* 'Called task on a stopping Renderer'.
C1_TaskNeverOnStoppingRenderer ==
  last.op = "task" => last.err # "renderer_stopping"

\* A task was handed to a promoted Renderer while the one it replaced is
\* still stopping.
C1_Witness ==
  /\ last = Called("task", _currentRenderer, "")
  /\ _currentRenderer # InitialRenderer
  /\ _previousStopPromise # 0
  /\ renderers[_previousStopPromise]._stopping

\* C2 as stated: every Renderer the getter returns has ready = true, from
\* the construction of the pool on.
C2_ReturnedAlwaysReady ==
  (last.op \in GetterOps /\ last.ret # 0) => renderers[last.ret].ready

\* C2 amended: every Renderer the getter returns, other than the one the
\* constructor created, has ready = true (the constructor's Renderer is handed
\* out while it is still warming up).
C2_ReturnedReadyUnlessInitial ==
  (last.op \in GetterOps /\ last.ret # 0 /\ last.ret # InitialRenderer)
    => renderers[last.ret].ready

\* The getter returned a promoted Renderer.
C2_Witness ==
  /\ last.op \in GetterOps
  /\ last.ret = _currentRenderer
  /\ last.ret # InitialRenderer

\* C3: at most one replacement Renderer is constructed and not promoted, and
\* it is the one in _futureRenderer (so no two replacements warm up together);
\* a step that constructs one starts from an empty slot, and the slot is
\* emptied only by making its Renderer the current one.
C3_AtMostOneReplacement ==
  /\ [](/\ Cardinality(NotPromoted) <= 1
        /\ NotPromoted = (IF _futureRenderer = 0 THEN {}
                          ELSE {_futureRenderer}))
  /\ [][/\ nextId' # nextId =>
             _futureRenderer = 0 /\ _futureRenderer' = nextId
        /\ (_futureRenderer # 0 /\ _futureRenderer' # _futureRenderer) =>
             _futureRenderer' = 0 /\ _currentRenderer' = _futureRenderer]_vars

\* The getter ran again past the limit while the replacement was warming up.
C3_Witness ==
  /\ last.op \in GetterOps /\ last.ret = _currentRenderer
  /\ _futureRenderer # 0
  /\ renderers[_futureRenderer].browser = "launching"
  /\ renderers[_currentRenderer].nbTotalTasks > MAX_RENDERER_TASKS

\* C4: below MAX_RENDERER_TASKS no step changes the current Renderer or
\* creates one, and the getter returns the current; a getter call made with
\* nbTotalTasks >= MAX_RENDERER_TASKS and no replacement started creates
\* exactly one, keeps the current and returns it; nothing else creates one.
C4_RollingTrigger ==
  [][LET cur == _currentRenderer
         nb == renderers[cur].nbTotalTasks
     IN /\ nb < MAX_RENDERER_TASKS =>
             /\ _currentRenderer' = cur
             /\ _futureRenderer' = _futureRenderer
             /\ nextId' = nextId
             /\ GetterRan => last'.ret = cur
        /\ (GetterRan /\ nb >= MAX_RENDERER_TASKS /\ _futureRenderer = 0) =>
             /\ nextId' = nextId + 1
             /\ _futureRenderer' = nextId
             /\ _currentRenderer' = cur
             /\ last'.ret = cur
        /\ nextId' # nextId =>
             /\ GetterRan
             /\ nb >= MAX_RENDERER_TASKS
             /\ _futureRenderer = 0
             /\ nextId' = nextId + 1]_vars

\* The replacement exists, fresh, and the current Renderer's count is past
\* the limit by more than the one task a pool call adds.
C4_Witness ==
  /\ last.op \in {"ready", "healthy", "renderer"}
  /\ last.ret = _currentRenderer
  /\ _futureRenderer # 0
  /\ renderers[_futureRenderer].browser = "launching"
  /\ renderers[_currentRenderer].nbTotalTasks = MAX_RENDERER_TASKS + 1

\* C5: while _previousStopPromise is set, a getter call returns the unchanged
\* current Renderer and calls stop() on nothing; the handle changes only by
\* being cleared when the stop it tracks has resolved; outside pool shutdown
\* the only stop in flight is the tracked one.
C5_PendingStopKeepsCurrent ==
  /\ [](_previousStopPromise # 0 =>
          /\ _previousStopPromise \notin {_currentRenderer, _futureRenderer}
          /\ renderers[_previousStopPromise]._stopping
          /\ renderers[_previousStopPromise].stop # "stopped")
  /\ [](~_stopping => StopInFlight \subseteq {_previousStopPromise})
  /\ [][_previousStopPromise # 0 =>
          /\ GetterRan =>
               /\ _currentRenderer' = _currentRenderer
               /\ last'.ret = _currentRenderer
               /\ _previousStopPromise' = _previousStopPromise
               /\ \A r \in RendererIds :
                    renderers'[r]._stopping = renderers[r]._stopping
          /\ _previousStopPromise' # _previousStopPromise =>
               /\ _previousStopPromise' = 0
               /\ renderers'[_previousStopPromise].stop = "stopped"]_vars

\* A second rolling trigger with the replacement ready while the stop of the
\* previous Renderer is pending: the getter returned the current Renderer.
C5_Witness ==
  /\ last.op \in GetterOps /\ last.ret = _currentRenderer
  /\ _previousStopPromise # 0
  /\ _futureRenderer # 0
  /\ renderers[_futureRenderer].ready
  /\ renderers[_currentRenderer].nbTotalTasks >= MAX_RENDERER_TASKS
  /\ ~_stopping

\* C6: the current Renderer changes only in a getter call made past the limit
\* with a ready replacement and no pending stop, and that one step calls
\* stop() on the old current, keeps its promise, makes the replacement current,
\* clears the slot and returns the new current; such a call always promotes;
\* no state shows a part of it.
C6_PromotionAtomic ==
  /\ [](/\ _currentRenderer # _futureRenderer
        /\ ~_stopping => ~renderers[_currentRenderer]._stopping
        /\ _futureRenderer # 0 => ~renderers[_futureRenderer]._stopping
                                    \/ _stopping)
  /\ [][LET cur == _currentRenderer
            fut == _futureRenderer
        IN /\ _currentRenderer' # cur =>
                /\ GetterRan
                /\ renderers[cur].nbTotalTasks >= MAX_RENDERER_TASKS
                /\ fut # 0 /\ renderers[fut].ready
                /\ _previousStopPromise = 0
                /\ _currentRenderer' = fut
                /\ _futureRenderer' = 0
                /\ _previousStopPromise' = cur
                /\ renderers'[cur]._stopping
                /\ last'.ret = fut
           /\ ( /\ GetterRan
                /\ renderers[cur].nbTotalTasks >= MAX_RENDERER_TASKS
                /\ fut # 0 /\ renderers[fut].ready
                /\ _previousStopPromise = 0 ) => _currentRenderer' = fut]_vars

\* Right after a promotion: the replacement is current and was returned, the
\* slot is empty, the old current is stopping and tracked.
C6_Witness ==
  /\ last.op \in GetterOps /\ last.ret = _currentRenderer
  /\ _currentRenderer # InitialRenderer
  /\ _futureRenderer = 0
  /\ _previousStopPromise = InitialRenderer
  /\ renderers[InitialRenderer]._stopping
  /\ renderers[_currentRenderer].nbTotalTasks = 0

\* C7: once stop() was called every task() call of the pool fails with the
\* pool's error and changes nothing; stop() calls stop() on the current
\* Renderer only with no previous stop pending and on the future Renderer only
\* after the current one has stopped; when stop() has resolved every Renderer
\* the pool created is stopped.
C7_PoolStop ==
  /\ [](poolStop # "idle" => _stopping)
  /\ [](poolStop = "done" =>
          \A r \in Created : renderers[r].stop = "stopped")
  /\ [][_stopping =>
          /\ _stopping'
          /\ last'.op = "task" =>
               /\ last'.err = "pool_stopping"
               /\ renderers' = renderers
          /\ <<_currentRenderer, _futureRenderer, nextId>>' =
               <<_currentRenderer, _futureRenderer, nextId>>
          /\ ( /\ renderers'[_currentRenderer]._stopping
               /\ ~renderers[_currentRenderer]._stopping )
               => _previousStopPromise = 0
          /\ ( /\ _futureRenderer # 0
               /\ renderers'[_futureRenderer]._stopping
               /\ ~renderers[_futureRenderer]._stopping )
               => renderers[_currentRenderer].stop = "stopped"]_vars

\* stop() resolved on a pool that had rolled once and had a replacement
\* warming up: three Renderers, all stopped.
C7_Witness ==
  /\ poolStop = "done"
  /\ _currentRenderer # InitialRenderer
  /\ _futureRenderer # 0
  /\ \A r \in {InitialRenderer, _currentRenderer, _futureRenderer} :
       renderers[r].stop = "stopped"

\* ---------------------------------------------------- claims: TasksManager

\* C8: #tasks holds exactly the task() calls that have not settled: an entry
\* is there from registration on and gone once the call has resolved or
\* rejected, so currentConcurrency is the number of unsettled calls.
C8_InFlightSetExact ==
  \A t \in TaskIds : tmTasks[t].in <=> Unsettled(calls[t])

\* C9: #browser.stop() is never called while an accepted task() call is
\* unsettled.
C9_BrowserStopsAfterTasks ==
  [][browserStops' > browserStops =>
       \A t \in TaskIds : ~Unsettled(calls'[t])]_vars

C11_StopTwiceAsOnce ==
  /\ browserStops <= 1
  /\ ( /\ \A s \in StopIds : stops[s].pc \in {"idle", "done"}
       /\ \E s \in StopIds : stops[s].pc = "done"
       /\ tmStopping )
     => /\ tmBrowser = "null"
        /\ \A t \in TaskIds : ~tmTasks[t].in

\* C12: `healthy` is false whenever the manager is stopping; else false when an
\* entry of #tasks was created more than UNHEALTHY_TASK_TTL ago; else it is
\* the browser's isReady, false without a browser.  Only tasks that have not
\* settled count: with every unsettled task younger than the TTL, `healthy`
\* of a manager that is not stopping is the browser's isReady.
C12_HealthyOfUnsettledTasks ==
  \A isReady \in BOOLEAN :
    LET ofBrowser == tmBrowser # "null" /\ isReady
        lost == \E t \in TaskIds : tmTasks[t].in /\ calls[t].old
    IN /\ tmStopping => ~healthy(isReady)
       /\ (~tmStopping /\ lost) => ~healthy(isReady)
       /\ (~tmStopping /\ ~lost) => (healthy(isReady) <=> ofBrowser)
       /\ ( /\ ~tmStopping
            /\ \A t \in TaskIds : Unsettled(calls[t]) => ~calls[t].old )
          => (healthy(isReady) <=> ofBrowser)

\* Errors a task's processing raises: page or context creation, linking,
\* process().
ProcessingErrors ==
  {"page_create_failed", "link_failed", "context_failed", "process_failed"}

ProcessingRaised(c) == c.fail \in ProcessingErrors \/ c.err \in ProcessingErrors

\* C13: an exception raised while a task is processed is caught: the task()
\* call of that task does not reject with it, and the step in which it is
\* raised leaves #stopping, #browser and every other task's call and entry
\* as they were.
C13_TaskErrorContained ==
  /\ [](\A t \in TaskIds :
          ProcessingRaised(calls[t]) => calls[t].pc # "rejected")
  /\ [][\A t \in TaskIds :
          (~ProcessingRaised(calls[t]) /\ ProcessingRaised(calls'[t])) =>
            /\ tmStopping' = tmStopping
            /\ tmBrowser' = tmBrowser
            /\ \A u \in TaskIds \ {t} :
                 calls'[u] = calls[u] /\ tmTasks'[u] = tmTasks[u]]_vars

\* C19: the page-creation guard acts only on a task() call whose page creation
\* has not resolved when MAX_WAIT_FOR_NEW_PAGE has passed: the manager is then
\* stopping and that call rejects with 'Can not create a BrowserPage'.  When
\* page creation resolved in time the guard does nothing, neither while the
\* task runs nor after it has completed.
C19_PageCreationGuard ==
  [][\A t \in TaskIds :
       (calls[t].timer = "armed" /\ calls'[t].timer = "fired") =>
         IF calls[t].pc = "creating"
         THEN /\ tmStopping'
              /\ calls'[t].pc = "rejected"
              /\ calls'[t].err = "cannot_create_page"
         ELSE /\ tmStopping' = tmStopping
              /\ stops' = stops
              /\ browserStops' = browserStops]_vars

\* ------------------------------------------------- claims: page processing

Success(r) == r.statusCode /\ r.body # ""

C15_NavigationOutcome ==
  \A t \in JobIds :
    jobs[t].pc = "done" =>
      LET r == jobs[t].result
      IN /\ jobs[t].slow => r.timeout = "true"
         /\ (jobs[t].response = 0 /\ ~jobs[t].slow) =>
              (r.error = "no_response" /\ r.timeout # "true")
         /\ r.timeout = "true" => jobs[t].slow

\* C16: when the location read before the extraction of the HTML differs from
\* the one read after it, the result is {error: 'unsafe_redirect'} with no
\* statusCode, body or resolvedUrl; every success result has both reads equal
\* to its resolvedUrl.
C16_UnsafeRedirect ==
  \A t \in JobIds :
    jobs[t].pc = "done" =>
      LET r == jobs[t].result
      IN /\ (jobs[t].post # "" /\ jobs[t].pre # jobs[t].post) =>
              /\ r.error = "unsafe_redirect"
              /\ ~r.statusCode /\ r.body = "" /\ r.resolvedUrl = ""
         /\ r.statusCode =>
              /\ jobs[t].pre = jobs[t].post
              /\ jobs[t].post = r.resolvedUrl
              /\ r.resolvedUrl \in Urls

\* The page moved between the two reads and the task ended with the error.
C16_Witness ==
  \E t \in JobIds :
    /\ jobs[t].pc = "done"
    /\ jobs[t].pre # jobs[t].post
    /\ jobs[t].body = jobs[t].post
    /\ jobs[t].result.error = "unsafe_redirect"

\* C17: the context created for a task is closed by the time the task has
\* finished, on every outcome.
C17_ContextClosedWhenFinished ==
  \A t \in JobIds :
    (Finished(jobs[t]) /\ jobs[t].ctx # 0) =>
      contexts[jobs[t].ctx] \in {"closed", "failed"}

Range(f) == {f[i] : i \in DOMAIN f}

Handed(t) == jobs[t].ctx # 0

\* C18: _newPage hands every pre-created {page, context} pair of the buffer
\* to at most one task: a job gets the pair at the head of the buffer, which
\* is new to it and leaves the buffer; two jobs never hold the same context,
\* finished jobs included, and a context held by a job is not in the buffer.
C18_OwnContextPerTask ==
  /\ [](\A t, u \in JobIds :
          (t # u /\ Handed(t) /\ Handed(u)) => jobs[t].ctx # jobs[u].ctx)
  /\ [](\A t \in JobIds : Handed(t) => jobs[t].ctx \notin Range(_pageBuffer))
  /\ [](\A i, k \in DOMAIN _pageBuffer :
          i # k => _pageBuffer[i] # _pageBuffer[k])
  /\ [][\A t \in JobIds :
          jobs'[t].ctx # jobs[t].ctx =>
            /\ ~Handed(t)
            /\ jobs'[t].ctx = Head(_pageBuffer)
            /\ Len(_pageBuffer') = PAGE_BUFFER_SIZE]_vars

\* Two jobs ran one after the other, each on a context of its own.
C18_Witness ==
  /\ system = "processPage"
  /\ Finished(jobs[1])
  /\ jobs[2].pc \notin {"unused", "newPage"}
  /\ jobs[1].ctx # jobs[2].ctx
  /\ contexts[jobs[1].ctx] = "closed"

\* C20: every task that was started settles, also when a browser operation
\* it awaits never completes.
C20_EveryTaskSettles ==
  \A t \in JobIds : (jobs[t].pc # "unused") ~> Finished(jobs[t])

\* The task's processing has ended and a close() of its page threw: the one
\* of task() or the one of #removeTask.
CloseThrew(c) ==
  /\ c.pc \in {"resolved", "rejected"}
  /\ c.promise = "settled"
  /\ \/ c.page = "open"
     \/ c.err = "close_failed"
     \/ c.fail = "close_failed"

\* C21: a failure while closing a task's page is swallowed: when processing
\* has produced the task's result and close() then throws, the task() call
\* still resolves (it does not reject, its result is not replaced by an
\* error) and the task is no longer in the in-flight set.  Stated for the
\* executions in which stop() is never called, so that nothing but close()
\* interferes with the call.
C21_CloseFailureSwallowed ==
  (\A s \in StopIds : stops[s].pc = "idle") =>
    \A t \in TaskIds :
      CloseThrew(calls[t]) => calls[t].pc = "resolved" /\ ~tmTasks[t].in

\* C25: every stop of an outgoing Renderer begun by a promotion completes in
\* the end and clears the pending-stop handle: _previousStopPromise, once
\* set, becomes null again, also when a task of the outgoing Renderer failed
\* or its browser never became ready.
C25_PendingStopCleared ==
  (_previousStopPromise # 0) ~> (_previousStopPromise = 0)

\* The navigation of the job has ended with a response in `response`: its
\* status and headers are the ones read for the result.
Navigated(j) ==
  j.pc \notin {"unused", "newPage", "context", "goto"} /\ j.response # 0

\* C28: the first response observed during a navigation is the canonical
\* one: the response whose status and headers are read for the result is
\* the first one the page emitted, and neither a later response of the same
\* navigation nor the response page.goto resolves with replaces it.
C28_FirstResponseCanonical ==
  \A t \in JobIds : Navigated(jobs[t]) => jobs[t].response = 1

\* C29: the minimum wait of PageTask.process: after a 2xx status with a
\* minimum wait configured the task sleeps for max(0, minWait - elapsed)
\* before it serializes, so the delay it asks for is never negative; with no
\* minimum configured or another status it does not sleep.
C29_MinimumWait ==
  [][\A t \in JobIds :
       (system = "pageTask" /\ jobs[t].pc = "inject"
          /\ jobs'[t].pc \in {"minWait", "halt"}) =>
         LET j == jobs[t]
         IN IF j.status \in 200..299 /\ j.minWait # 0
            THEN /\ jobs'[t].pc = "minWait"
                 /\ jobs'[t].sleep >= 0
                 /\ jobs'[t].sleep =
                      (IF j.minWait > j.elapsed THEN j.minWait - j.elapsed ELSE 0)
            ELSE jobs'[t].pc = "halt"]_vars

\* ------------------------------------------------------ claims: one Renderer

\* The contexts for which browser.createIncognitoBrowserContext() has been
\* called.
ContextRequested(cx) == {c \in CtxIds : cx[c] \in {"creating", "open"}}

\* C22: once a Renderer's _stopping flag is true no new browsing context is
\* created on its browser: no step taken with _stopping true calls
\* createIncognitoBrowserContext, whatever the interleaving of task(), the
\* refill of the page buffer and stop().
C22_NoContextAfterStopping ==
  [][rStopping =>
       \A c \in CtxIds :
         contexts'[c] = "creating" => c \in ContextRequested(contexts)]_vars

\* ------------------------------------------------ claims: request handler

Intercepted == {q \in ReqIds : reqs[q].pc # "none"}

Aborted == {q \in ReqIds : reqs[q].outcome = "aborted"}

\* C23: the request counters of a BrowserPage: every intercepted request is
\* counted in metrics.requests once, before it is decided; every request
\* that is aborted is counted in metrics.blockedRequests once; so
\* blockedRequests is the number of aborted requests and is at most
\* requests.
C23_RequestCounters ==
  handler = "BrowserPage" =>
    /\ metrics.requests = Cardinality(Intercepted)
    /\ metrics.blockedRequests = Cardinality(Aborted)
    /\ metrics.blockedRequests <= metrics.requests

\* What the four conditions of the filter say of a request that has been
\* decided.
Allowed(r) ==
  /\ ~r.data
  /\ r.validation = "ok"
  /\ ~r.ignored
  /\ ~(adblock /\ r.match)

Unresolvable(r) == r.pc = "done" /\ r.validation = "enotfound"

\* C30: a request whose IP validation fails with ENOTFOUND is not aborted by
\* the filter and the failure is logged; a request whose validation fails
\* otherwise is aborted, logged and counted as blocked.
C30_DnsFailureNotBlocking ==
  handler = "BrowserPage" =>
    /\ \A q \in ReqIds :
         /\ Unresolvable(reqs[q]) =>
              reqs[q].outcome # "aborted" /\ reqs[q].logged
         /\ (reqs[q].pc = "done" /\ reqs[q].validation = "denied") =>
              reqs[q].outcome = "aborted" /\ reqs[q].logged
    /\ metrics.blockedRequests >=
         Cardinality({q \in ReqIds : reqs[q].validation = "denied"})

InFlight == {t \in JobIds : jobs[t].pc \in {"newPage", "process"}}

\* The page creations of the buffer that have not settled.
PendingPages ==
  {i \in DOMAIN _pageBuffer : contexts[_pageBuffer[i]] \in {"waitBrowser", "creating"}}

\* C26: Renderer.stop() drains before teardown: a step that calls
\* browser.close() leaves the Renderer ready, with every task of
\* _currentTasks settled and removed and no page creation of the buffer
\* pending; and while a browser.close() is under way no task of the Renderer
\* is in flight.
C26_DrainBeforeClose ==
  /\ [][closes' > closes =>
          /\ rReady'
          /\ _currentTasks' = {}
          /\ InFlight' = {}
          /\ PendingPages' = {}]_vars
  /\ []((\E s \in StopIds : stopCalls[s].pc = "closing") => InFlight = {})

\* A stop() that found tasks in flight has waited for them and has called
\* browser.close().
C26_Witness ==
  \E s \in StopIds :
    /\ stopCalls[s].pc = "closing"
    /\ stopCalls[s].awaited # {}
    /\ closes = 1

\* C27: Renderer.stop() is idempotent and never throws: whether it is called
\* a second time, or on a Renderer whose tasks failed or whose browser is
\* gone, no call rejects because of the state of the Renderer, and
\* browser.close() is called at most once.
C27_StopIdempotent ==
  /\ closes <= 1
  /\ \A s \in StopIds : stopCalls[s].pc # "failed"

\* ------------------------------------------------ claims: stop and shutdown

\* A task() call that has ended after its processing settled and its
\* task.close() resolved, with no error of its own.
Succeeded(c) ==
  /\ c.pc \in {"resolved", "rejected"}
  /\ c.promise = "settled"
  /\ c.page = "closed"
  /\ c.fail = ""
  /\ c.err # "close_failed"

\* C31: in src/lib/TasksManager.ts a stop() made while a task is in flight
\* never turns the outcome of that task into a failure: a task() call that
\* was accepted and whose processing and close succeed resolves, whenever
\* stop() is called, and does not reject with 'Could not find task'.
C31_StopKeepsOutcome ==
  \A t \in TaskIds : Succeeded(calls[t]) => calls[t].pc = "resolved"

\* C32: Renderer._currentTasks holds exactly the tasks whose processing
\* promise has not settled: once a Renderer.task() call has finished, with a
\* result or with an error, its entry is gone from _currentTasks, so that no
\* failed task stays listed and no stop() call rejects because of one.
C32_CurrentTasksUnsettled ==
  /\ _currentTasks = InFlight
  /\ \A s \in StopIds :
       stopCalls[s].pc = "failed" =>
         \A t \in stopCalls[s].awaited : jobs[t].pc # "thrown"

\* Renderers that were created and whose stop() has not completed: each one
\* owns a browser process that was launched and not closed.
Live == {r \in Created : renderers[r].stop # "stopped"}

\* C33: a RollingRenderer never has more than three live Renderers: every
\* Renderer that was created and whose stop has not completed is the current
\* one, the future one or the previous one whose stop the pool still tracks,
\* however many times the pool has rolled.
C33_AtMostThreeLive ==
  /\ Live \subseteq {_currentRenderer, _futureRenderer, _previousStopPromise}
  /\ Cardinality(Live) <= 3

\* The pool has rolled twice and made a fourth Renderer: the first is
\* stopped, the second is stopping, the third is current, the fourth waits.
C33_Witness ==
  /\ Cardinality(Created) = 4
  /\ Cardinality(Live) = 3
  /\ _previousStopPromise # 0
  /\ _futureRenderer # 0

\* The gracefulClose() calls that ran the shutdown sequence.
Running == {c \in SignalIds : closeCalls[c].pc \notin {"idle", "swallowed"}}

\* The gracefulClose() calls that have called tasksManager.stop().
StopStarted == {c \in SignalIds : closeCalls[c].stop # 0}

\* C34: gracefulClose runs the shutdown sequence at most once however many
\* times it is called, calls made while the first one is in progress
\* included; in that run tasksManager.stop() is started only after the API
\* server has shut down, reporting.drain() only after tasksManager.stop()
\* has resolved, and process.exit only after the drain has resolved.
C34_ShutdownOnceInOrder ==
  /\ Cardinality(Running) <= 1
  /\ apiStops <= 1 /\ drains <= 1 /\ exits <= 1
  /\ \A c \in StopStarted : api = "stopped"
  /\ drain # "idle" =>
       \E c \in StopStarted : stops[closeCalls[c].stop].pc = "done"
  /\ exits > 0 => drain = "resolved"

\* Three signals, the later two while the first call was running; tasks were
\* served and the first call has gone through to process.exit.
C34_Witness ==
  /\ exits = 1
  /\ closeCalls[1].pc = "exited"
  /\ \A c \in SignalIds : c > 1 => closeCalls[c].pc = "swallowed"
  /\ \E t \in TaskIds : calls[t].pc = "resolved"

====
